---- MODULE Spec2Model ----
(***************************************************************************)
(* A state-machine model of the voice command pipeline of OpenSpace:       *)
(*   - VoiceCommandHandler (src/src/interaction/voicecommandhandler.cpp)   *)
(*   - VoiceCommandTopic   (src/modules/server/src/topics/                 *)
(*                          voicecommandtopic.cpp)                         *)
(*   - SceneInitializer    (declared in voicecommandhandler.cpp:760-791)   *)
(* Every public operation of a class is one action.  The operations of the *)
(* handler are written as operators over a record h holding the handler's  *)
(* fields, so that the nested calls (setError -> setState -> callbacks)    *)
(* are composed exactly as the code composes them.                         *)
(***************************************************************************)
EXTENDS Integers, Sequences, FiniteSets, TLC

\* ------------------------------------------------------------------ bounds
\* temporary audio files written by saveAudioToTemp (timestamps drawn)
MaxSaves == 2
\* callback handles handed out by addStateChangeCallback
MaxHandles == 2
\* detached Success->Idle timer threads alive at the same time
MaxTimers == 2
\* lines of output read from the transcription subprocess
MaxLines == 2
\* the scene graph nodes handed to the scene initializer
MaxNodes == 3
\* the most workers a MultiThreadedSceneInitializer is constructed with
MaxThreads == 2
\* the longest curve of a Path, in units of distance
MaxLength == 4
\* the largest displacement one traversePath call integrates
MaxDisplacement == 2
\* the traversePath calls made on a Path
MaxTraversals == 3
\* the duplicateProfile calls made on one dialog
MaxDuplicates == 2
\* the connect and disconnect calls the owner of a PythonIPCHandler makes
MaxIpcCalls == 3

VARIABLES
    \* ---- VoiceCommandHandler fields (voicecommandhandler.h:187-209)
    state,                \* _state
    isRecordingProp,      \* _isRecording (the read-only property)
    transcription,        \* _transcription
    error,                \* _error
    audioDevice,          \* _audioDevice: "null", "stopped" or "started"
    lastAudioPath,        \* _lastAudioPath
    nextCallbackHandle,   \* _nextCallbackHandle
    stateChangeCallbacks, \* _stateChangeCallbacks: handle -> owner
    \* ---- the environment of the handler
    files,                \* the files present under /tmp/openspace_voice/
    now,                  \* timestamps consumed by saveAudioToTemp
    timers,               \* detached timer threads: position -> how many
    \* ---- what the last operation did (observations, reset by every step)
    lastOp,               \* the operation the last step ran
    ret,                  \* its return value ("true", "false", "void")
    trans,                \* the values setState stored, in order
    notes,                \* the callback handles invoked, in order
    sent,                 \* the snapshots sent over the connection, in order
    queued,               \* the scripts handed to ScriptEngine::queueScript
    spawned,              \* the subprocesses popen was called for
    closed,               \* the pipes pclose was called for
    transcribed,          \* what processAudioData returned to stopRecording
    lastGen,              \* the script generation run confirmTranscription met
    lastOut,              \* the transcription run processAudioData met
    lastMessage,          \* the message handleWebGuiMessage was given
    \* ---- VoiceCommandTopic fields (voicecommandtopic.cpp:52-118)
    isSubscribed,         \* _isSubscribed
    isDone,               \* _isDone
    callbackHandle,       \* _callbackHandle
    voiceHandler,         \* _voiceHandler: "null" or "handler"
    topicAlive,           \* FALSE once the destructor has run
    \* ---- SceneInitializer (declared at voicecommandhandler.cpp:760-791)
    sceneKind,            \* "single" or "multi": the variant constructed
    nThreads,             \* the worker count of the multi-threaded variant
    initializedNodes,     \* _initializedNodes: the ready list
    initializingNodes,    \* _initializingNodes
    threadPool,           \* _threadPool: the tasks no worker has taken yet
    workers,              \* each worker's position and the node it holds
    nodeInitialized,      \* per node: its initialization has finished
    submitted,            \* the nodes passed to initializeNode so far
    returned,             \* per node: how often takeInitializedNodes returned it
    taken,                \* the result of the last takeInitializedNodes
    tornDown,             \* the initializer has been destroyed
    \* ---- Path (modules/autonavigation/path.cpp:45-152)
    pathLength,           \* _curve->length()
    startIdentifier,      \* _start.nodeDetails.identifier
    endIdentifier,        \* _end.nodeDetails.identifier
    traveledDistance,     \* _traveledDistance
    progressedTime,       \* _progressedTime
    traversals,           \* the traversePath calls made so far
    \* ---- ProfileEdit (modules/autonavigation/path.cpp:249-697)
    profileEdit,          \* _profileEdit->text(), a sequence of characters
    profileFiles,         \* the names n with <_profileBasePath>n.profile on disk
    builtInProfiles,      \* the names n with <_builtInProfilesPath>/n.profile on disk
    saveSelected,         \* _saveSelected
    dialogResult,         \* "open", "accepted" or "rejected"
    profileOp,            \* the last operation of the dialog
    thrown,               \* the exception that left the last operation
    duplicates,           \* the duplicateProfile calls made so far
    profileInput,         \* the key or button the last operation was given
    signalled,            \* the signal the last operation emitted
    \* ---- the eclipse asset (5000_years.asset) and the globes' layers
    layerGroups,          \* globe -> layer group -> the layers in it
    assetEnabled,         \* asset.enabled when the asset was loaded
    assetInitialized,     \* onInitialize has run and onDeinitialize has not
    assetOp,              \* the last operation on the layers
    \* ---- PythonIPCHandler (unnamed/part_001:1-168)
    socketFd,             \* _socketFd
    socketPath,           \* _socketPath
    running,              \* _running
    receiveThread,        \* _receiveThread: the thread it holds, 0 if not joinable
    openFds,              \* the descriptors open in the process
    threadPc,             \* each receive thread's position in receiveLoop
    ownerPc,              \* the owner's position in connect or disconnect
    ipcCalls,             \* the connect and disconnect calls made so far
    ipcOp,                \* the call the owner made last
    ipcRet,               \* what the last finished connect returned
    terminated            \* std::terminate has been called

handlerVars == <<state, isRecordingProp, transcription, error, audioDevice,
                 lastAudioPath, files, now>>
callbackVars == <<nextCallbackHandle, stateChangeCallbacks>>
obsVars == <<lastOp, ret, trans, notes, sent, queued, spawned, closed,
            transcribed, lastGen, lastOut, lastMessage>>
topicVars == <<isSubscribed, isDone, callbackHandle, voiceHandler, topicAlive>>
voiceVars == <<handlerVars, callbackVars, timers, obsVars, topicVars>>
sceneVars == <<sceneKind, nThreads, initializedNodes, initializingNodes,
               threadPool, workers, nodeInitialized, submitted, returned, taken,
               tornDown>>
pathVars == <<pathLength, startIdentifier, endIdentifier, traveledDistance,
              progressedTime, traversals>>
profileVars == <<profileEdit, profileFiles, builtInProfiles, saveSelected,
                 dialogResult, profileOp, thrown, duplicates, profileInput,
                 signalled>>
assetVars == <<layerGroups, assetEnabled, assetInitialized, assetOp>>
ipcVars == <<socketFd, socketPath, running, receiveThread, openFds,
             threadPc, ownerPc, ipcCalls, ipcOp, ipcRet, terminated>>
nonVoiceVars == <<sceneVars, pathVars, profileVars, assetVars, ipcVars>>
nonSceneVars == <<voiceVars, pathVars, profileVars, assetVars, ipcVars>>
nonPathVars == <<voiceVars, sceneVars, profileVars, assetVars, ipcVars>>
nonProfileVars == <<voiceVars, sceneVars, pathVars, assetVars, ipcVars>>
nonAssetVars == <<voiceVars, sceneVars, pathVars, profileVars, ipcVars>>
nonIpcVars == <<voiceVars, sceneVars, pathVars, profileVars, assetVars>>

\* ------------------------------------------------------------------ values
\* enum class VoiceState
VoiceStates == {"Idle", "Recording", "Processing", "GeneratingScript",
                "Success", "Error"}

\* texts a transcription subprocess can return
Texts == {"hello world", "fly to mars"}

\* scripts a generation subprocess can return
Scripts == {"openspace.setPropertyValue(...)"}

\* error texts of a subprocess payload
PayloadErrors == {"whisper failed"}

\* the owners of a registered callback: the topic's lambda or another client
Owners == {"topic", "other"}

\* the ascending sequence of a finite set of integers (std::map iteration order)
RECURSIVE AscendingSeq(_)
AscendingSeq(S) ==
    IF S = {} THEN <<>>
    ELSE LET m == CHOOSE x \in S : \A y \in S : x <= y
         IN  <<m>> \o AscendingSeq(S \ {m})

\* a switch with a keyword of its own for Success
StatusKeywordNamesSuccess(s) ==
    CASE s = "Idle" -> "idle"
      [] s = "Recording" -> "recording"
      [] s = "Processing" -> "processing"
      [] s = "Error" -> "error"
      [] s = "Success" -> "success"
      [] OTHER -> "unknown"

\* the keyword VoiceCommandTopic::sendStateUpdate sends for a state
StatusKeyword(s) ==
    CASE s = "Idle" -> "idle"
      [] s = "Recording" -> "recording"
      [] s = "Processing" -> "processing"
      [] s = "Error" -> "error"
      [] OTHER -> "unknown"

\* the handler's fields as one record, with the observations
H == [state |-> state, isRecordingProp |-> isRecordingProp,
      transcription |-> transcription, error |-> error,
      audioDevice |-> audioDevice, lastAudioPath |-> lastAudioPath,
      files |-> files, now |-> now, timers |-> timers,
      trans |-> <<>>, notes |-> <<>>, sent |-> <<>>, queued |-> <<>>,
      spawned |-> 0, closed |-> 0, transcribed |-> ""]

\* ---------------------------------------------------------- setters
\* VoiceCommandTopic::sendStateUpdate as run by the topic's callback: the
\* snapshot carries the handler's fields at the moment of the call
Snapshot(h) ==
    [type |-> "voice_status", status |-> StatusKeyword(h.state),
     transcription |-> h.transcription, error |-> h.error]

\* the body of the loop of setState: every callback of the map, by ascending
\* handle; the topic's callback sends a snapshot
RECURSIVE InvokeCallbacks(_, _)
InvokeCallbacks(h, handles) ==
    IF handles = <<>> THEN h
    ELSE LET c == Head(handles)
             h1 == [h EXCEPT !.notes = Append(@, c)]
             h2 == IF stateChangeCallbacks[c] = "topic"
                   THEN [h1 EXCEPT !.sent = Append(@, Snapshot(h1))]
                   ELSE h1
         IN  InvokeCallbacks(h2, Tail(handles))

\* VoiceCommandHandler::setState
SetState(h, s) ==
    IF h.state # s
    THEN InvokeCallbacks(
             [h EXCEPT !.state = s,
                       !.isRecordingProp = (s = "Recording"),
                       !.trans = Append(@, s)],
             AscendingSeq(DOMAIN stateChangeCallbacks))
    ELSE h

\* VoiceCommandHandler::cleanupAudioFile
CleanupAudioFile(h) ==
    IF h.lastAudioPath # ""
    THEN [h EXCEPT !.files = @ \ {h.lastAudioPath}, !.lastAudioPath = ""]
    ELSE h

\* setTranscription that stores the text and forgets the file and the state
SetTranscriptionStoresOnly(h, t) ==
    IF h.transcription # t THEN [h EXCEPT !.transcription = t] ELSE h

\* VoiceCommandHandler::setTranscription
SetTranscription(h, t) ==
    IF h.transcription # t
    THEN LET h1 == [h EXCEPT !.transcription = t]
         IN  IF t # "" THEN SetState(CleanupAudioFile(h1), "Idle") ELSE h1
    ELSE h

\* VoiceCommandHandler::setError
SetError(h, e) ==
    IF h.error # e
    THEN LET h1 == [h EXCEPT !.error = e]
         IN  IF e # "" THEN SetState(h1, "Error") ELSE h1
    ELSE h

\* ---------------------------------------------------------- JSON payloads
\* A member of a parsed JSON object: absent, a string, a boolean, or a value
\* of another type (number, null, array, object).
Absent == [k |-> "absent", v |-> ""]
Str(s) == [k |-> "str", v |-> s]
Bool(b) == [k |-> "bool", v |-> b]
Other == [k |-> "other", v |-> ""]

\* What operator[] of a const nlohmann::json yields for a key the object does
\* not hold: the behaviour is undefined, so the value read is any value.
UBFields == {Other, Str(""), Str("garbage")}
UBBools == {Other, Bool("true"), Bool("false")}

\* response[key] on a const json: the member, or an undefined read
Lookup(member, ub) == IF member.k = "absent" THEN ub ELSE member

\* A line of subprocess output, as fgets hands it over: pad says that it has
\* surrounding whitespace; kind says what is left after trimming:
\*   "blank"    nothing
\*   "diag"     text that does not begin with '{'
\*   "json"     text that begins with '{' and is a JSON object with the
\*              members error and text
\*   "badjson"  text that begins with '{' and is not valid JSON (cut at the
\*              1023 characters of the read buffer, or not JSON at all)
LineKinds == {"blank", "diag", "json", "badjson"}
ErrorMembers == {Absent, Other, Str("")} \cup {Str(e) : e \in PayloadErrors}
TextMembers == {Absent, Other, Str("")} \cup {Str(t) : t \in Texts}
Lines ==
    [pad : BOOLEAN, kind : {"blank", "diag", "badjson"},
     error : {Absent}, text : {Absent}]
    \cup [pad : BOOLEAN, kind : {"json"}, error : ErrorMembers, text : TextMembers]

\* current_line.substr(start, end - start + 1): the surrounding whitespace goes
Trim(line) == [line EXCEPT !.pad = FALSE]

\* find_first_not_of(" \t\n\r") == npos
AllWhitespace(line) == line.kind = "blank"

\* current_line[0] == '{'
BeginsWithBrace(line) == line.kind \in {"json", "badjson"}

\* nlohmann::json::parse of a line: the object, or a parse_error
ParseJson(line) ==
    IF line.kind = "json"
    THEN [ok |-> TRUE, error |-> line.error, text |-> line.text]
    ELSE [ok |-> FALSE, error |-> Absent, text |-> Absent]

\* pclose results: 0, or the wait status of exit code 1
ExitStatuses == {0, 256}

\* the loop of processAudioData over the lines fgets returns (lines 399-432)
RECURSIVE ScanLines(_, _)
ScanLines(lines, acc) ==
    IF lines = <<>> THEN acc
    ELSE LET cur == Head(lines)
         IN  IF AllWhitespace(cur) THEN ScanLines(Tail(lines), acc)
             ELSE IF BeginsWithBrace(Trim(cur))
                  THEN ScanLines(Tail(lines),
                           [acc EXCEPT !.result = Trim(cur), !.found_json = TRUE])
                  ELSE ScanLines(Tail(lines),
                           [acc EXCEPT !.debug_output = Append(@, Trim(cur))])

NoLine == [pad |-> FALSE, kind |-> "blank", error |-> Absent, text |-> Absent]

\* ---------------------------------------------------------- recording
\* the path saveAudioToTemp builds from the millisecond timestamp
AudioPath(timestamp) == "/tmp/openspace_voice/audio_" \o ToString(timestamp) \o ".raw"

\* the outcomes of writing the file: written, not opened, opened but not written
SaveOutcomes == {"ok", "openfail", "writefail"}

\* VoiceCommandHandler::saveAudioToTemp
SaveAudioToTemp(h, outcome) ==
    LET audioPath == AudioPath(h.now + 1)
        h1 == [h EXCEPT !.now = @ + 1]
    IN  CASE outcome = "openfail" -> [h |-> h1, ret |-> FALSE]
          [] outcome = "writefail" ->
                [h |-> [h1 EXCEPT !.files = @ \cup {audioPath}], ret |-> FALSE]
          [] OTHER ->
                [h |-> [h1 EXCEPT !.files = @ \cup {audioPath},
                                  !.lastAudioPath = audioPath],
                 ret |-> TRUE]

\* processAudioData that returns the text and keeps the error it found
ProcessAudioDataKeepsError(h, out) ==
    IF h.lastAudioPath = ""
    THEN [h |-> SetError(h, "No audio file available for processing"), ret |-> ""]
    ELSE
    LET hp == [h EXCEPT !.spawned = @ + 1]
        scan == ScanLines(out.lines,
                    [result |-> NoLine, found_json |-> FALSE, debug_output |-> <<>>])
        response == ParseJson(scan.result)
        errorMember == Lookup(response.error, out.ub)
        hc == [hp EXCEPT !.closed = @ + 1]
        fail(e) == [h |-> SetError(hp, e), ret |-> ""]
        failClosed(e) == [h |-> SetError(hc, e), ret |-> ""]
    IN  IF ~out.popen THEN fail("Failed to execute Python script")
        ELSE IF ~scan.found_json THEN fail("Failed to get transcription result")
        ELSE IF out.status # 0
        THEN failClosed("Python script failed with status: " \o ToString(out.status))
        ELSE IF ~response.ok
        THEN failClosed("Failed to parse transcription result: parse_error")
        ELSE IF errorMember.k # "str"
        THEN failClosed("Failed to parse transcription result: type_error")
        ELSE IF errorMember.v # "" THEN failClosed(errorMember.v)
        ELSE IF response.text.k = "absent" THEN failClosed("Invalid transcription response")
        ELSE IF response.text.k # "str"
        THEN failClosed("Failed to parse transcription result: type_error")
        ELSE IF response.text.v = "" THEN failClosed("No speech detected")
        ELSE [h |-> hc, ret |-> response.text.v]

\* VoiceCommandHandler::processAudioData; out is what the subprocess does:
\* popen (the pipe could be opened), lines, status (of pclose) and ub (the
\* value an undefined read yields).  pclose is called after the loop and the
\* test of found_json (line 454); the returns before it leave the pipe open.
ProcessAudioData(h, out) ==
    IF h.lastAudioPath = ""
    THEN [h |-> SetError(h, "No audio file available for processing"), ret |-> ""]
    ELSE
    LET hp == [h EXCEPT !.spawned = @ + 1]
        scan == ScanLines(out.lines,
                    [result |-> NoLine, found_json |-> FALSE, debug_output |-> <<>>])
        response == ParseJson(scan.result)
        errorMember == Lookup(response.error, out.ub)
        hc == [hp EXCEPT !.closed = @ + 1]
        fail(e) == [h |-> SetError(hp, e), ret |-> ""]
        failClosed(e) == [h |-> SetError(hc, e), ret |-> ""]
    IN  IF ~out.popen THEN fail("Failed to execute Python script")
        ELSE IF ~scan.found_json THEN fail("Failed to get transcription result")
        ELSE IF out.status # 0
        THEN failClosed("Python script failed with status: " \o ToString(out.status))
        ELSE IF ~response.ok
        THEN failClosed("Failed to parse transcription result: parse_error")
        ELSE IF errorMember.k # "str"
        THEN failClosed("Failed to parse transcription result: type_error")
        ELSE IF errorMember.v # "" THEN failClosed(errorMember.v)
        ELSE IF response.text.k = "absent" THEN failClosed("Invalid transcription response")
        ELSE IF response.text.k # "str"
        THEN failClosed("Failed to parse transcription result: type_error")
        ELSE IF response.text.v = "" THEN failClosed("No speech detected")
        ELSE [h |-> SetError(hc, ""), ret |-> response.text.v]

\* the outcomes of ma_device_init and ma_device_start are the environment's
\* VoiceCommandHandler::startRecording
StartRecording(h, initOk, startOk) ==
    IF h.state = "Recording"
    THEN [h |-> SetError(h, "Already recording"), ret |-> FALSE]
    ELSE IF h.audioDevice = "null" /\ ~initOk
    THEN [h |-> SetError(h, "Failed to initialize audio capture"), ret |-> FALSE]
    ELSE LET h1 == [h EXCEPT !.audioDevice = IF @ = "null" THEN "stopped" ELSE @]
         IN  IF ~startOk
             THEN [h |-> SetError(h1, "Failed to start audio capture"), ret |-> FALSE]
             ELSE [h |-> SetState(
                             SetTranscription(
                                 SetError([h1 EXCEPT !.audioDevice = "started"], ""),
                                 ""),
                             "Recording"),
                   ret |-> TRUE]

\* a stopRecording that deletes the saved file when the transcription fails
StopRecordingCleansUp(h, save, out) ==
    IF h.state # "Recording"
    THEN [h |-> SetError(h, "Not currently recording"), ret |-> FALSE]
    ELSE LET h1 == [h EXCEPT !.audioDevice = IF @ = "null" THEN @ ELSE "stopped"]
             h2 == SetState(h1, "Processing")
             saved == SaveAudioToTemp(h2, save)
             called == ProcessAudioData(saved.h, out)
             processed == [called EXCEPT !.h.transcribed = called.ret]
         IN  IF ~saved.ret
             THEN [h |-> SetState(SetError(saved.h, "Failed to save audio data"),
                                  "Error"),
                   ret |-> FALSE]
             ELSE IF processed.ret = ""
             THEN [h |-> SetState(CleanupAudioFile(processed.h), "Error"),
                   ret |-> FALSE]
             ELSE [h |-> SetTranscription(processed.h, processed.ret), ret |-> TRUE]

\* VoiceCommandHandler::stopRecording
StopRecording(h, save, out) ==
    IF h.state # "Recording"
    THEN [h |-> SetError(h, "Not currently recording"), ret |-> FALSE]
    ELSE LET h1 == [h EXCEPT !.audioDevice = IF @ = "null" THEN @ ELSE "stopped"]
             h2 == SetState(h1, "Processing")
             saved == SaveAudioToTemp(h2, save)
             called == ProcessAudioData(saved.h, out)
             processed == [called EXCEPT !.h.transcribed = called.ret]
         IN  IF ~saved.ret
             THEN [h |-> SetState(SetError(saved.h, "Failed to save audio data"),
                                  "Error"),
                   ret |-> FALSE]
             ELSE IF processed.ret = ""
             THEN [h |-> SetState(processed.h, "Error"), ret |-> FALSE]
             ELSE [h |-> SetTranscription(processed.h, processed.ret), ret |-> TRUE]

\* ---------------------------------------------------------- script generation
\* the positions of a detached timer thread (lines 624-627) in its code:
\*   "sleep"    in sleep_for, before setState(Idle) reads _state
\*   "write"    has read _state != Idle, before _state = Idle
\*   "propC"/"propN"      before _isRecording.setValue; C: the write changed
\*                        the stored state, N: it stored the value again
\*   "notifyC"/"notifyN"  before the loop over the callbacks
TimerPcs == {"sleep", "write", "propC", "propN", "notifyC", "notifyN"}

RECURSIVE SumOver(_, _)
SumOver(f, S) ==
    IF S = {} THEN 0
    ELSE LET x == CHOOSE y \in S : TRUE IN f[x] + SumOver(f, S \ {x})

\* the timer threads that have not finished
TimerCount(t) == SumOver(t, TimerPcs)

\* generateAndExecuteScript that forgets the transcription it has turned
\* into a script
GenerateAndExecuteScriptClearsTranscription(h, t, gen) ==
    IF t = "" THEN SetError(h, "Empty transcription")
    ELSE
    LET h0 == SetState(h, "GeneratingScript")
        h1 == [h0 EXCEPT !.spawned = @ + 1,
                         !.closed = IF gen.popen THEN @ + 1 ELSE @]
        fail(e) == SetState(SetError(h1, e), "Error")
        success == Lookup(gen.success, gen.ubBool)
        errorMember == Lookup(gen.error, gen.ubStr)
        luaScript == Lookup(gen.script, gen.ubStr)
        typeError == "Failed to parse script generation result: type_error"
    IN  IF ~gen.popen THEN fail("Failed to execute script generation service")
        ELSE IF gen.status # 0 THEN fail("Script generation failed")
        ELSE IF gen.kind # "json"
        THEN fail("Failed to parse script generation result: parse_error")
        ELSE IF success.k # "bool" THEN fail(typeError)
        ELSE IF success.v # "true"
        THEN IF errorMember.k # "str" THEN fail(typeError)
             ELSE fail("Script generation failed: " \o errorMember.v)
        ELSE IF luaScript.k # "str" THEN fail(typeError)
        ELSE IF luaScript.v = "" THEN fail("Generated script is empty")
        ELSE LET h2 == [h1 EXCEPT !.queued = Append(@,
                            [code |-> luaScript.v, synchronized |-> "Yes",
                             sendToRemote |-> "Yes"])]
                 h3 == SetState(SetError([h2 EXCEPT !.transcription = ""], ""),
                                "Success")
             IN  [h3 EXCEPT !.timers["sleep"] = @ + 1]

\* generateAndExecuteScript that starts no timer after a success
GenerateAndExecuteScriptNoTimer(h, t, gen) ==
    IF t = "" THEN SetError(h, "Empty transcription")
    ELSE
    LET h0 == SetState(h, "GeneratingScript")
        h1 == [h0 EXCEPT !.spawned = @ + 1,
                         !.closed = IF gen.popen THEN @ + 1 ELSE @]
        fail(e) == SetState(SetError(h1, e), "Error")
        success == Lookup(gen.success, gen.ubBool)
        errorMember == Lookup(gen.error, gen.ubStr)
        luaScript == Lookup(gen.script, gen.ubStr)
        typeError == "Failed to parse script generation result: type_error"
    IN  IF ~gen.popen THEN fail("Failed to execute script generation service")
        ELSE IF gen.status # 0 THEN fail("Script generation failed")
        ELSE IF gen.kind # "json"
        THEN fail("Failed to parse script generation result: parse_error")
        ELSE IF success.k # "bool" THEN fail(typeError)
        ELSE IF success.v # "true"
        THEN IF errorMember.k # "str" THEN fail(typeError)
             ELSE fail("Script generation failed: " \o errorMember.v)
        ELSE IF luaScript.k # "str" THEN fail(typeError)
        ELSE IF luaScript.v = "" THEN fail("Generated script is empty")
        ELSE LET h2 == [h1 EXCEPT !.queued = Append(@,
                            [code |-> luaScript.v, synchronized |-> "Yes",
                             sendToRemote |-> "Yes"])]
                 h3 == SetState(SetError(h2, ""), "Success")
             IN  h3

\* What the script generation subprocess does: popen, status (of pclose), and
\* the text read from its standard output, trimmed: kind "json" is a JSON
\* object with the members success, error and script, "badjson" is anything
\* else (nothing, several lines, text cut at 4095 bytes).  ubBool and ubStr
\* are the values undefined reads of absent members yield.
GenerateAndExecuteScript(h, t, gen) ==
    IF t = "" THEN SetError(h, "Empty transcription")
    ELSE
    LET h0 == SetState(h, "GeneratingScript")
        h1 == [h0 EXCEPT !.spawned = @ + 1,
                         !.closed = IF gen.popen THEN @ + 1 ELSE @]
        fail(e) == SetState(SetError(h1, e), "Error")
        success == Lookup(gen.success, gen.ubBool)
        errorMember == Lookup(gen.error, gen.ubStr)
        luaScript == Lookup(gen.script, gen.ubStr)
        typeError == "Failed to parse script generation result: type_error"
    IN  IF ~gen.popen THEN fail("Failed to execute script generation service")
        ELSE IF gen.status # 0 THEN fail("Script generation failed")
        ELSE IF gen.kind # "json"
        THEN fail("Failed to parse script generation result: parse_error")
        ELSE IF success.k # "bool" THEN fail(typeError)
        ELSE IF success.v # "true"
        THEN IF errorMember.k # "str" THEN fail(typeError)
             ELSE fail("Script generation failed: " \o errorMember.v)
        ELSE IF luaScript.k # "str" THEN fail(typeError)
        ELSE IF luaScript.v = "" THEN fail("Generated script is empty")
        ELSE LET h2 == [h1 EXCEPT !.queued = Append(@,
                            [code |-> luaScript.v, synchronized |-> "Yes",
                             sendToRemote |-> "Yes"])]
                 h3 == SetState(SetError(h2, ""), "Success")
             IN  [h3 EXCEPT !.timers["sleep"] = @ + 1]

\* confirmTranscription that reports whether the generation succeeded
ConfirmTranscriptionReportsOutcome(h, gen) ==
    IF h.state # "Idle" \/ h.transcription = ""
    THEN [h |-> SetError(h, "No transcription available or not in idle state"),
          ret |-> FALSE]
    ELSE LET g == GenerateAndExecuteScript(h, h.transcription, gen)
         IN  [h |-> g, ret |-> g.state # "Error"]

\* VoiceCommandHandler::confirmTranscription
ConfirmTranscription(h, gen) ==
    IF h.state # "Idle" \/ h.transcription = ""
    THEN [h |-> SetError(h, "No transcription available or not in idle state"),
          ret |-> FALSE]
    ELSE [h |-> GenerateAndExecuteScript(h, h.transcription, gen), ret |-> TRUE]

\* VoiceCommandHandler::sendStatusUpdate
SendStatusUpdate(h, status, t, e) ==
    LET h1 == IF e # "" THEN SetError(h, e) ELSE h
        h2 == IF t # "" THEN SetTranscription(h1, t) ELSE h1
    IN  CASE status = "idle" -> SetState(h2, "Idle")
          [] status = "recording" -> SetState(h2, "Recording")
          [] status = "processing" -> SetState(h2, "Processing")
          [] status = "error" -> SetState(h2, "Error")
          [] OTHER -> h2

\* The messages handleWebGuiMessage can be given: text that is not JSON
\* ("malformed"), JSON that is not an object ("nonobject": an array, a
\* number), a JSON object without an "action" member ("noaction"), one whose
\* "action" is not a string ("badaction"), or JSON with the action named.
WebGuiMessages == {"malformed", "nonobject", "noaction", "badaction",
                   "toggle_recording", "start_recording", "stop_recording",
                   "confirm_transcription", "unknown_action"}

\* handleWebGuiMessage whose toggle_recording always starts a recording
HandleWebGuiMessageToggleStarts(h, message, env) ==
    CASE message \in {"malformed", "badaction"} ->
            SendStatusUpdate(h, "error", "", "Invalid message format")
      [] message = "toggle_recording" ->
            StartRecording(h, env.initOk, env.startOk).h
      [] message = "start_recording" -> StartRecording(h, env.initOk, env.startOk).h
      [] message = "stop_recording" -> StopRecording(h, env.save, env.out).h
      [] message = "confirm_transcription" ->
            IF h.state = "Idle" /\ h.transcription # ""
            THEN GenerateAndExecuteScript(h, h.transcription, env.gen)
            ELSE SetError(h, "No transcription available or not in idle state")
      [] OTHER -> h

\* VoiceCommandHandler::handleWebGuiMessage; env holds the outcomes of the
\* device, the file system and the subprocesses the dispatched operation meets
HandleWebGuiMessage(h, message, env) ==
    CASE message \in {"malformed", "badaction"} ->
            SendStatusUpdate(h, "error", "", "Invalid message format")
      [] message = "toggle_recording" ->
            IF h.state = "Recording"
            THEN StopRecording(h, env.save, env.out).h
            ELSE StartRecording(h, env.initOk, env.startOk).h
      [] message = "start_recording" -> StartRecording(h, env.initOk, env.startOk).h
      [] message = "stop_recording" -> StopRecording(h, env.save, env.out).h
      [] message = "confirm_transcription" ->
            IF h.state = "Idle" /\ h.transcription # ""
            THEN GenerateAndExecuteScript(h, h.transcription, env.gen)
            ELSE SetError(h, "No transcription available or not in idle state")
      [] OTHER -> h

\* ---------------------------------------------------------- callbacks
\* addStateChangeCallback that hands out the smallest handle not in the map
AddStateChangeCallbackReuses(cbs, next, owner) ==
    LET free == CHOOSE c \in 0 .. next :
                    c \notin DOMAIN cbs /\ \A d \in 0 .. c - 1 : d \in DOMAIN cbs
    IN  [cbs |-> [c \in DOMAIN cbs \cup {free} |-> IF c = free THEN owner ELSE cbs[c]],
         next |-> next + 1,
         handle |-> free]

\* VoiceCommandHandler::addStateChangeCallback: the map and the counter after
\* the call, and the handle returned
AddStateChangeCallback(cbs, next, owner) ==
    [cbs |-> [c \in DOMAIN cbs \cup {next} |-> IF c = next THEN owner ELSE cbs[c]],
     next |-> next + 1,
     handle |-> next]

\* removeStateChangeCallback that erases nothing
RemoveStateChangeCallbackKeeps(cbs, handle) == cbs

\* VoiceCommandHandler::removeStateChangeCallback: the map after erase(handle)
RemoveStateChangeCallback(cbs, handle) ==
    [c \in DOMAIN cbs \ {handle} |-> cbs[c]]

\* ---------------------------------------------------------- the topic
\* setupStateChangeCallback that registers without removing the callback the
\* topic already holds
SetupStateChangeCallbackKeepsOld(vh, handle, cbs, next) ==
    IF vh = "null" THEN [handle |-> handle, cbs |-> cbs, next |-> next]
    ELSE LET added == AddStateChangeCallback(cbs, next, "topic")
         IN  [handle |-> added.handle, cbs |-> added.cbs, next |-> added.next]

\* VoiceCommandTopic::setupStateChangeCallback over the topic's handle and the
\* handler's map and counter
SetupStateChangeCallback(vh, handle, cbs, next) ==
    IF vh = "null" THEN [handle |-> handle, cbs |-> cbs, next |-> next]
    ELSE LET kept == IF handle # -1 THEN RemoveStateChangeCallback(cbs, handle)
                     ELSE cbs
             added == AddStateChangeCallback(kept, next, "topic")
         IN  [handle |-> added.handle, cbs |-> added.cbs, next |-> added.next]

\* sendStateUpdate without the test for a missing handler
SendStateUpdateUnguarded(vh, h) == <<Snapshot(h)>>

\* VoiceCommandTopic::sendStateUpdate called by handleJson: the snapshots sent
SendStateUpdate(vh, h) == IF vh = "null" THEN <<>> ELSE <<Snapshot(h)>>

\* isDone that reports the _isDone flag
IsDoneReportsFlag == isDone

\* VoiceCommandTopic::isDone
IsDone == ~isSubscribed

\* the events handleJson can be given: no "event" member, or the event named
TopicEvents == {"noevent", "start_subscription", "stop_subscription", "refresh",
                "unknown_event"}

\* ---------------------------------------------------------- inputs
JsonLine(e, t) == [pad |-> FALSE, kind |-> "json", error |-> e, text |-> t]
DiagLine == [pad |-> TRUE, kind |-> "diag", error |-> Absent, text |-> Absent]
BadJsonLine == [pad |-> FALSE, kind |-> "badjson", error |-> Absent, text |-> Absent]
Out(popen, lines, status) ==
    [popen |-> popen, lines |-> lines, status |-> status, ub |-> Other]

\* the transcription subprocess runs the handler's operations meet:
\* one per way processAudioData can end
TranscriptOutputs ==
    {Out(FALSE, <<>>, 0),
     Out(TRUE, <<DiagLine>>, 0),
     Out(TRUE, <<JsonLine(Str(""), Str("hello world"))>>, 256),
     Out(TRUE, <<BadJsonLine>>, 0),
     Out(TRUE, <<JsonLine(Str("whisper failed"), Absent)>>, 0),
     Out(TRUE, <<JsonLine(Str(""), Absent)>>, 0),
     Out(TRUE, <<JsonLine(Str(""), Str(""))>>, 0)}
    \cup {Out(TRUE, <<DiagLine, JsonLine(Str(""), Str(t))>>, 0) : t \in Texts}

Gen(popen, status, kind, success, err, script) ==
    [popen |-> popen, status |-> status, kind |-> kind, success |-> success,
     error |-> err, script |-> script, ubBool |-> Other, ubStr |-> Other]

\* the script generation subprocess runs: one per way the step can end
GenOutputs ==
    {Gen(FALSE, 0, "badjson", Absent, Absent, Absent),
     Gen(TRUE, 256, "badjson", Absent, Absent, Absent),
     Gen(TRUE, 0, "badjson", Absent, Absent, Absent),
     Gen(TRUE, 0, "json", Bool("false"), Str("no such node"), Absent),
     Gen(TRUE, 0, "json", Bool("true"), Absent, Str(""))}
    \cup {Gen(TRUE, 0, "json", Bool("true"), Absent, Str(c)) : c \in Scripts}

\* every output of at most MaxLines lines
LineSeqs == UNION {[1 .. n -> Lines] : n \in 0 .. MaxLines}

\* every transcription subprocess run: the pipe is not opened, or it is and
\* the subprocess writes its lines and ends with its status
ProcOutputs ==
    {Out(FALSE, <<>>, 0)}
    \cup [popen : {TRUE}, lines : LineSeqs, status : ExitStatuses, ub : UBFields]

\* no subprocess run
NoOut == Out(FALSE, <<>>, 0)
NoGen == Gen(FALSE, 0, "badjson", Absent, Absent, Absent)

DefaultEnv ==
    [initOk |-> TRUE, startOk |-> TRUE, save |-> "ok", out |-> NoOut, gen |-> NoGen]
StartEnvs == {[DefaultEnv EXCEPT !.initOk = a, !.startOk = b] : a, b \in BOOLEAN}
StopEnvs ==
    {[DefaultEnv EXCEPT !.save = s, !.out = o] :
        s \in SaveOutcomes, o \in TranscriptOutputs}
GenEnvs == {[DefaultEnv EXCEPT !.gen = g] : g \in GenOutputs}

\* the outcomes that matter to the operation a message is dispatched to
EnvsFor(message) ==
    CASE message = "toggle_recording" -> StartEnvs \cup StopEnvs
      [] message = "start_recording" -> StartEnvs
      [] message = "stop_recording" -> StopEnvs
      [] message = "confirm_transcription" -> GenEnvs
      [] OTHER -> {DefaultEnv}

\* the operation a message is dispatched to in the handler's current state
Dispatched(message) ==
    CASE message = "start_recording" -> "startRecording"
      [] message = "stop_recording" -> "stopRecording"
      [] message = "toggle_recording" ->
            IF state = "Recording" THEN "stopRecording" ELSE "startRecording"
      [] message = "confirm_transcription" -> "generateAndExecuteScript"
      [] OTHER -> "none"

\* the outcomes the dispatched operation gets to; the others are fixed
EnvRead(message, env) ==
    CASE Dispatched(message) = "startRecording" ->
            /\ env \in StartEnvs
            /\ state = "Recording" => env.initOk /\ env.startOk
            /\ audioDevice # "null" => env.initOk
      [] Dispatched(message) = "stopRecording" ->
            /\ env \in StopEnvs
            /\ state # "Recording" => env.save = "ok"
            /\ (state # "Recording" \/ env.save # "ok") => env.out = NoOut
      [] Dispatched(message) = "generateAndExecuteScript" ->
            /\ env \in GenEnvs
            /\ (state # "Idle" \/ transcription = "") => env.gen = NoGen
      [] OTHER -> env = DefaultEnv

\* no message
NoMessage == [message |-> "", env |-> DefaultEnv]

\* the arguments sendStatusUpdate is called with
StatusArgs == {"idle", "recording", "processing", "error", "done"}

BoolStr(b) == IF b THEN "true" ELSE "false"

\* ---------------------------------------------------------- initial state
\* the handler as constructed (voicecommandhandler.h:187-209) and the topic as
\* constructed (voicecommandtopic.cpp:52-61); the temporary directory is empty
HandlerInit ==
    /\ state = "Idle"
    /\ isRecordingProp = FALSE
    /\ transcription = ""
    /\ error = ""
    /\ audioDevice = "null"
    /\ lastAudioPath = ""
    /\ nextCallbackHandle = 0
    /\ stateChangeCallbacks = <<>>
    /\ files = {}
    /\ now = 0
    /\ timers = [p \in TimerPcs |-> 0]
    /\ lastOp = "init"
    /\ ret = "void"
    /\ trans = <<>>
    /\ notes = <<>>
    /\ sent = <<>>
    /\ queued = <<>>
    /\ spawned = 0
    /\ closed = 0
    /\ transcribed = ""
    /\ lastGen = NoGen
    /\ lastOut = NoOut
    /\ lastMessage = NoMessage
    /\ isSubscribed = FALSE
    /\ isDone = FALSE
    /\ callbackHandle = -1
    /\ topicAlive = TRUE

\* ---------------------------------------------------------- path
\* the identifiers of the scene graph nodes a Path leads from and to
Identifiers == {"Earth", "Mars"}

\* a Path just constructed: _traveledDistance and _progressedTime are 0
PathInit ==
    /\ pathLength \in 0 .. MaxLength
    /\ startIdentifier \in Identifiers
    /\ endIdentifier \in Identifiers
    /\ traveledDistance = 0
    /\ progressedTime = 0
    /\ traversals = 0

\* a / b in IEEE double arithmetic, for the cases that differ: a number, or
\* what a division by zero yields
Divide(a, b) ==
    IF b # 0 THEN [kind |-> "num", num |-> a, den |-> b]
    ELSE IF a = 0 THEN [kind |-> "nan", num |-> 0, den |-> 0]
    ELSE IF a > 0 THEN [kind |-> "inf", num |-> 1, den |-> 0]
    ELSE [kind |-> "-inf", num |-> -1, den |-> 0]

\* q > n / d for a quotient q of a positive denominator and d > 0; a
\* comparison with NaN is false
Greater(q, n, d) ==
    CASE q.kind = "num" -> q.num * d > n * q.den
      [] q.kind = "inf" -> TRUE
      [] OTHER -> FALSE

\* q >= n / d
GreaterEq(q, n, d) ==
    CASE q.kind = "num" -> q.num * d >= n * q.den
      [] q.kind = "inf" -> TRUE
      [] OTHER -> FALSE

\* hasReachedEnd that asks for more than the whole length
HasReachedEndStrict == Greater(Divide(traveledDistance, pathLength), 1, 1)

\* Path::hasReachedEnd
HasReachedEnd == GreaterEq(Divide(traveledDistance, pathLength), 1, 1)

\* currentAnchor that switches at the halfway point
CurrentAnchorAtHalf ==
    LET pastHalfway == GreaterEq(Divide(traveledDistance, pathLength), 1, 2)
    IN  IF pastHalfway THEN endIdentifier ELSE startIdentifier

\* Path::currentAnchor
CurrentAnchor ==
    LET pastHalfway == Greater(Divide(traveledDistance, pathLength), 1, 2)
    IN  IF pastHalfway THEN endIdentifier ELSE startIdentifier

\* ---------------------------------------------------------- profile editor
\* the largest and the smallest int
IntMax == 2147483647
IntMin == -2147483647 - 1
IntMaxDigits == <<"2", "1", "4", "7", "4", "8", "3", "6", "4", "7">>
IntMinDigits == <<"2", "1", "4", "7", "4", "8", "3", "6", "4", "8">>
Separator == "_"
DigitChars == <<"0", "1", "2", "3", "4", "5", "6", "7", "8", "9">>
IsDigit(ch) == \E n \in 1 .. 10 : DigitChars[n] = ch
DigitVal(ch) == (CHOOSE n \in 1 .. 10 : DigitChars[n] = ch) - 1

\* std::string::rfind of a character: the last index holding it, 0 for npos
RFind(str, ch) ==
    LET at == {i \in 1 .. Len(str) : str[i] = ch}
    IN  IF at = {} THEN 0 ELSE CHOOSE i \in at : \A j \in at : j <= i

\* the parts of std::stoi: leading white space is skipped, a sign is read,
\* then the longest run of digits; what follows the digits is ignored
RECURSIVE SkipSpace(_)
SkipSpace(str) ==
    IF str # <<>> /\ Head(str) = " " THEN SkipSpace(Tail(str)) ELSE str

RECURSIVE DigitPrefix(_)
DigitPrefix(str) ==
    IF str # <<>> /\ IsDigit(Head(str))
    THEN <<Head(str)>> \o DigitPrefix(Tail(str))
    ELSE <<>>

RECURSIVE StripZeros(_)
StripZeros(digits) ==
    IF Len(digits) > 1 /\ Head(digits) = "0" THEN StripZeros(Tail(digits)) ELSE digits

\* a > b for two digit sequences of one length
RECURSIVE LexGreater(_, _)
LexGreater(a, b) ==
    IF a = <<>> THEN FALSE
    ELSE IF Head(a) # Head(b) THEN DigitVal(Head(a)) > DigitVal(Head(b))
    ELSE LexGreater(Tail(a), Tail(b))

\* the digits do not fit an int of the sign
TooBig(digits, negative) ==
    \/ Len(digits) > 10
    \/ Len(digits) = 10
         /\ LexGreater(digits, IF negative THEN IntMinDigits ELSE IntMaxDigits)

RECURSIVE Accumulate(_, _, _)
Accumulate(digits, sign, value) ==
    IF digits = <<>> THEN value
    ELSE Accumulate(Tail(digits), sign, value * 10 + sign * DigitVal(Head(digits)))

\* std::stoi: the value, or the exception it throws
Stoi(str) ==
    LET unspaced == SkipSpace(str)
        signed == unspaced # <<>> /\ Head(unspaced) \in {"+", "-"}
        negative == signed /\ Head(unspaced) = "-"
        digits == DigitPrefix(IF signed THEN Tail(unspaced) ELSE unspaced)
        significant == StripZeros(digits)
    IN  IF digits = <<>> THEN [thrown |-> "invalid_argument", value |-> 0]
        ELSE IF TooBig(significant, negative)
        THEN [thrown |-> "out_of_range", value |-> 0]
        ELSE [thrown |-> "none",
              value |-> Accumulate(significant, IF negative THEN -1 ELSE 1, 0)]

\* std::format("{}", n) of a non-negative and of any int
RECURSIVE FormatNat(_)
FormatNat(n) ==
    IF n < 10 THEN <<DigitChars[n + 1]>>
    ELSE FormatNat(n \div 10) \o <<DigitChars[(n % 10) + 1]>>

Format(n) ==
    IF n >= 0 THEN FormatNat(n)
    ELSE IF n = IntMin THEN <<"-">> \o IntMinDigits
    ELSE <<"-">> \o FormatNat(-n)

\* the loop of duplicateProfile: the first candidate after version that is
\* not on disk. version++ of the largest int is undefined: the build may
\* wrap to the smallest int or trap
RECURSIVE FirstFree(_, _, _, _)
FirstFree(text, profile, version, onDisk) ==
    LET overflow == version = IntMax
        next == IF overflow THEN IntMin ELSE version + 1
        candidate == profile \o <<Separator>> \o Format(next)
        found == IF candidate \notin onDisk
                 THEN {[text |-> candidate, thrown |-> "none"]}
                 ELSE FirstFree(text, profile, next, onDisk)
    IN  IF overflow THEN found \cup {[text |-> text, thrown |-> "undefined"]}
        ELSE found

\* ProfileEdit::duplicateProfile: the new text of the name field and the
\* exception that leaves the call, one record for every outcome
DuplicateProfileOutcomes(text, onDisk) ==
    IF text = <<>> THEN {[text |-> text, thrown |-> "none"]}
    ELSE
        LET it == RFind(text, Separator)
            parsed == IF it # 0 THEN Stoi(SubSeq(text, it + 1, Len(text)))
                      ELSE [thrown |-> "invalid_argument", value |-> 0]
            stripped == it # 0 /\ parsed.thrown = "none"
        IN  IF it # 0 /\ parsed.thrown = "out_of_range"
            THEN {[text |-> text, thrown |-> "out_of_range"]}
            ELSE FirstFree(text,
                           IF stripped THEN SubSeq(text, 1, it - 1) ELSE text,
                           IF stripped THEN parsed.value ELSE 0,
                           onDisk)

\* approved that lets a built-in profile be overwritten
ApprovedOverwritesBuiltIn(text, builtIn, saved, dialog) ==
    IF text = <<>> THEN [saveSelected |-> saved, dialogResult |-> dialog]
    ELSE [saveSelected |-> TRUE, dialogResult |-> "accepted"]

\* ProfileEdit::approved: _saveSelected and the result of the dialog after it
Approved(text, builtIn, saved, dialog) ==
    IF text = <<>> THEN [saveSelected |-> saved, dialogResult |-> dialog]
    ELSE IF text \in builtIn THEN [saveSelected |-> saved, dialogResult |-> dialog]
    ELSE [saveSelected |-> TRUE, dialogResult |-> "accepted"]

\* the keys a key press event can carry
Keys == {"Enter", "Return", "Escape", "A"}

\* what QMessageBox::exec returns: one of the three buttons, or the box was
\* closed otherwise
Buttons == {"Save", "Discard", "Cancel", "NoButton"}

\* ProfileEdit::promptUserOfUnsavedChanges: _saveSelected and the result of
\* the dialog after the switch over the button
PromptUserOfUnsavedChanges(button, text, builtIn, saved, dialog) ==
    CASE button = "Save" -> Approved(text, builtIn, saved, dialog)
      [] button = "Discard" -> [saveSelected |-> FALSE, dialogResult |-> "rejected"]
      [] OTHER -> [saveSelected |-> saved, dialogResult |-> dialog]

\* the names typed into the name field
Earth == <<"E", "a", "r", "t", "h">>
ProfileNames ==
    {<<>>, Earth, <<"_", "7">>,
     Earth \o <<"_">>,
     Earth \o <<"_", "3">>,
     Earth \o <<"_", "0", "3">>,
     Earth \o <<"_", "3", "a">>,
     Earth \o <<"_", "a">>,
     Earth \o <<"_", " ", "3">>,
     Earth \o <<"_", "-", "2">>,
     Earth \o <<"_", "a", "_", "1">>,
     Earth \o <<"_">> \o IntMaxDigits,
     Earth \o <<"_">> \o IntMinDigits}

\* the profiles that may be in the user's and in the built-in folder
UserProfiles ==
    {Earth \o <<"_", "1">>, Earth \o <<"_", "4">>, Earth \o <<"_", "5">>,
     Earth \o <<"_", "3", "a", "_", "1">>}
BuiltIn == {Earth, Earth \o <<"_", "4">>}

\* the dialog as ProfileEdit::ProfileEdit leaves it
ProfileInit ==
    /\ profileEdit \in ProfileNames
    /\ profileFiles \in SUBSET UserProfiles
    /\ builtInProfiles \in SUBSET BuiltIn
    /\ saveSelected = FALSE
    /\ dialogResult = "open"
    /\ profileOp = "init"
    /\ thrown = "none"
    /\ duplicates = 0
    /\ profileInput = "none"
    /\ signalled = "none"

\* ---------------------------------------------------------- eclipse asset
\* the globes, their layer groups, and the layers other assets contribute
Globes == {"Earth", "Moon"}
LayerGroupIds == {"ColorLayers", "HeightLayers"}
OtherLayers ==
    {[Identifier |-> "Blue_Marble", Enabled |-> TRUE, ZIndex |-> 0],
     [Identifier |-> "VIIRS_SNPP", Enabled |-> FALSE, ZIndex |-> 100]}

\* the layer table of the asset
Layer ==
    [Identifier |-> "5000_Years_Eclipses", Enabled |-> assetEnabled, ZIndex |-> 100]

\* openspace.globebrowsing.addLayer: the layer joins the group of the globe
\* unless a layer of its identifier is there
AddLayer(groups, globe, group, layer) ==
    IF \E l \in groups[globe][group] : l.Identifier = layer.Identifier
    THEN groups
    ELSE [groups EXCEPT ![globe][group] = @ \cup {layer}]

\* openspace.globebrowsing.deleteLayer: the layer of that identifier leaves
\* the group of the globe
DeleteLayer(groups, globe, group, layer) ==
    [groups EXCEPT ![globe][group] = {l \in @ : l.Identifier # layer.Identifier}]

\* the function given to asset.onInitialize
OnInitialize(groups) == AddLayer(groups, "Earth", "ColorLayers", Layer)

\* a deactivation that leaves the layer in place
OnDeinitializeLeavesLayer(groups) == groups

\* the function given to asset.onDeinitialize
OnDeinitialize(groups) == DeleteLayer(groups, "Earth", "ColorLayers", Layer)

\* the asset is loaded and not initialized; no globe has a layer yet
AssetInit ==
    /\ layerGroups = [g \in Globes |-> [k \in LayerGroupIds |-> {}]]
    /\ assetEnabled \in BOOLEAN
    /\ assetInitialized = FALSE
    /\ assetOp = "load"

\* ---------------------------------------------------------- python ipc handler
\* the paths connect is called with, the receive threads and the descriptors
SocketPaths == {"/tmp/openspace_voice.sock", "/tmp/other.sock"}
IpcThreads == 1 .. MaxIpcCalls
Descriptors == 3 .. 4

\* the handler as PythonIPCHandler::PythonIPCHandler leaves it
IpcInit ==
    /\ socketFd = -1
    /\ socketPath = ""
    /\ running = FALSE
    /\ receiveThread = 0
    /\ openFds = {}
    /\ threadPc = [t \in IpcThreads |-> "unborn"]
    /\ ownerPc = "idle"
    /\ ipcCalls = 0
    /\ ipcOp = "init"
    /\ ipcRet = FALSE
    /\ terminated = FALSE

\* PythonIPCHandler::isConnected
IsConnected == socketFd # -1

\* socket(): the lowest descriptor that is not open
FreshFd == CHOOSE fd \in Descriptors \ openFds : \A o \in Descriptors \ openFds : fd <= o

\* the threads that have been started, and the next one to start
Started == {t \in IpcThreads : threadPc[t] # "unborn"}
NextThread == Cardinality(Started) + 1

\* the scene graph nodes, the workers and the sequences without repetition
Nodes == 1 .. MaxNodes
Workers == 1 .. MaxThreads
Range(seq) == {seq[i] : i \in DOMAIN seq}

\* a scene initializer of either variant, just constructed
SceneInit ==
    /\ \/ sceneKind = "single" /\ nThreads = 0
       \/ sceneKind = "multi" /\ nThreads \in Workers
    /\ initializedNodes = <<>>
    /\ initializingNodes = {}
    /\ threadPool = <<>>
    /\ workers = [w \in Workers |-> [pc |-> "idle", node |-> 0]]
    /\ nodeInitialized = [n \in Nodes |-> FALSE]
    /\ submitted = {}
    /\ returned = [n \in Nodes |-> 0]
    /\ taken = <<>>
    /\ tornDown = FALSE

\* global::voiceCommandHandler is set when the topic is constructed
\* the components a specification leaves alone, as they are constructed
SceneRest == SceneInit /\ sceneKind = "single"
PathRest ==
    PathInit /\ pathLength = 1 /\ startIdentifier = "Earth" /\ endIdentifier = "Mars"
VoiceRest == HandlerInit /\ voiceHandler = "handler"
ProfileRest ==
    ProfileInit /\ profileEdit = Earth /\ profileFiles = {} /\ builtInProfiles = {}
AssetRest == AssetInit /\ assetEnabled = TRUE
NonVoiceInit == SceneRest /\ PathRest /\ ProfileRest /\ AssetRest /\ IpcInit
NonSceneInit == VoiceRest /\ PathRest /\ ProfileRest /\ AssetRest /\ IpcInit
NonPathInit == VoiceRest /\ SceneRest /\ ProfileRest /\ AssetRest /\ IpcInit
NonProfileInit == VoiceRest /\ SceneRest /\ PathRest /\ AssetRest /\ IpcInit
NonAssetInit == VoiceRest /\ SceneRest /\ PathRest /\ ProfileRest /\ IpcInit
NonIpcInit == VoiceRest /\ SceneRest /\ PathRest /\ ProfileRest /\ AssetRest

Init == HandlerInit /\ voiceHandler = "handler" /\ NonVoiceInit

\* processAudioData is entered by stopRecording in state Processing, with or
\* without an error stored; the function is also given the handler without a
\* path on record
ProcInit ==
    /\ state = "Processing"
    /\ isRecordingProp = FALSE
    /\ transcription = ""
    /\ error \in {"", "No speech detected"}
    /\ audioDevice = "stopped"
    /\ lastAudioPath \in {"", AudioPath(1)}
    /\ nextCallbackHandle = 0
    /\ stateChangeCallbacks = <<>>
    /\ files = {lastAudioPath} \ {""}
    /\ now = 1
    /\ timers = [p \in TimerPcs |-> 0]
    /\ lastOp = "init"
    /\ ret = "void"
    /\ trans = <<>>
    /\ notes = <<>>
    /\ sent = <<>>
    /\ queued = <<>>
    /\ spawned = 0
    /\ closed = 0
    /\ transcribed = ""
    /\ lastGen = NoGen
    /\ lastOut = NoOut
    /\ lastMessage = NoMessage
    /\ isSubscribed = FALSE
    /\ isDone = FALSE
    /\ callbackHandle = -1
    /\ topicAlive = TRUE
    /\ voiceHandler = "handler"
    /\ NonVoiceInit

\* ---------------------------------------------------------- actions
\* a handler operation has run: its fields, and what it did
Commit(h, op, r, in) ==
    /\ h.now <= MaxSaves
    /\ TimerCount(h.timers) <= MaxTimers
    /\ state' = h.state
    /\ isRecordingProp' = h.isRecordingProp
    /\ transcription' = h.transcription
    /\ error' = h.error
    /\ audioDevice' = h.audioDevice
    /\ lastAudioPath' = h.lastAudioPath
    /\ files' = h.files
    /\ now' = h.now
    /\ timers' = h.timers
    /\ lastOp' = op
    /\ ret' = r
    /\ trans' = h.trans
    /\ notes' = h.notes
    /\ sent' = h.sent
    /\ queued' = h.queued
    /\ spawned' = h.spawned
    /\ closed' = h.closed
    /\ transcribed' = h.transcribed
    /\ lastGen' = IF op = "confirmTranscription" THEN in ELSE NoGen
    /\ lastOut' = IF op = "processAudioData" THEN in ELSE NoOut
    /\ lastMessage' = IF op = "handleWebGuiMessage" THEN in ELSE NoMessage

\* processAudioData called once on the handler it is given
DoProcessAudioData ==
    /\ lastOp = "init"
    /\ \E out \in ProcOutputs :
          LET r == ProcessAudioData(H, out)
          IN  /\ lastAudioPath = "" => out = NoOut
              /\ Commit(r.h, "processAudioData", r.ret, out)
              /\ UNCHANGED <<callbackVars, topicVars, nonVoiceVars>>

\* the outcomes a call does not get to are fixed: the device is not touched
\* while Recording, and is initialized only once
DoStartRecording ==
    \E initOk, startOk \in BOOLEAN :
        LET r == StartRecording(H, initOk, startOk)
        IN  /\ state = "Recording" => initOk /\ startOk
            /\ audioDevice # "null" => initOk
            /\ Commit(r.h, "startRecording", BoolStr(r.ret), NoOut)
            /\ UNCHANGED <<callbackVars, topicVars, nonVoiceVars>>

\* nothing is saved unless the state is Recording, and no subprocess is run
\* unless the file was saved
DoStopRecording ==
    \E save \in SaveOutcomes, out \in TranscriptOutputs :
        LET r == StopRecording(H, save, out)
        IN  /\ state # "Recording" => save = "ok"
            /\ (state # "Recording" \/ save # "ok") => out = NoOut
            /\ Commit(r.h, "stopRecording", BoolStr(r.ret), NoOut)
            /\ UNCHANGED <<callbackVars, topicVars, nonVoiceVars>>

\* no subprocess is run by a call that is rejected
DoConfirmTranscription ==
    \E gen \in GenOutputs :
        LET r == ConfirmTranscription(H, gen)
        IN  /\ (state # "Idle" \/ transcription = "") => gen = NoGen
            /\ Commit(r.h, "confirmTranscription", BoolStr(r.ret), gen)
            /\ UNCHANGED <<callbackVars, topicVars, nonVoiceVars>>

DoSendStatusUpdate ==
    \E status \in StatusArgs, t \in Texts \cup {""}, e \in PayloadErrors \cup {""} :
        /\ Commit(SendStatusUpdate(H, status, t, e), "sendStatusUpdate", "void", NoOut)
        /\ UNCHANGED <<callbackVars, topicVars, nonVoiceVars>>

DoHandleWebGuiMessage ==
    \E message \in WebGuiMessages :
        \E env \in EnvsFor(message) :
            /\ EnvRead(message, env)
            /\ Commit(HandleWebGuiMessage(H, message, env),
                      "handleWebGuiMessage", "void",
                      [message |-> message, env |-> env])
            /\ UNCHANGED <<callbackVars, topicVars, nonVoiceVars>>

\* no handler operation ran in this step
Observe(op, r, snapshots) ==
    /\ lastOp' = op
    /\ ret' = r
    /\ trans' = <<>>
    /\ notes' = <<>>
    /\ sent' = snapshots
    /\ queued' = <<>>
    /\ spawned' = 0
    /\ closed' = 0
    /\ transcribed' = ""
    /\ lastGen' = NoGen
    /\ lastOut' = NoOut
    /\ lastMessage' = NoMessage

\* the scripting binding state(): the switch of the Lua function
LuaState(s) ==
    CASE s = "Idle" -> "idle"
      [] s = "Recording" -> "recording"
      [] s = "Processing" -> "processing"
      [] s = "Error" -> "error"
      [] OTHER -> "unknown"

\* a script calls openspace.voice.state()
DoLuaState ==
    /\ Observe("state", LuaState(state), <<>>)
    /\ UNCHANGED <<handlerVars, callbackVars, timers, topicVars, nonVoiceVars>>

\* a client other than the topic registers a callback
DoAddStateChangeCallback ==
    /\ nextCallbackHandle < MaxHandles
    /\ LET a == AddStateChangeCallback(stateChangeCallbacks, nextCallbackHandle,
                                       "other")
       IN  /\ stateChangeCallbacks' = a.cbs
           /\ nextCallbackHandle' = a.next
           /\ Observe("addStateChangeCallback", ToString(a.handle), <<>>)
    /\ UNCHANGED <<handlerVars, timers, topicVars, nonVoiceVars>>

\* a client other than the topic removes a handle: one it was given, or one
\* that is not registered
DoRemoveStateChangeCallback ==
    \E handle \in 0 .. MaxHandles :
        /\ handle \in DOMAIN stateChangeCallbacks
              => stateChangeCallbacks[handle] = "other"
        /\ stateChangeCallbacks' =
              RemoveStateChangeCallback(stateChangeCallbacks, handle)
        /\ Observe("removeStateChangeCallback", "void", <<>>)
        /\ UNCHANGED <<handlerVars, timers, nextCallbackHandle, topicVars, nonVoiceVars>>

\* a timer that returns to Idle from Success only
TimerCheckOnlySuccess ==
    /\ timers["sleep"] > 0
    /\ timers' = IF state = "Success"
                 THEN [timers EXCEPT !["sleep"] = @ - 1, !["write"] = @ + 1]
                 ELSE [timers EXCEPT !["sleep"] = @ - 1]
    /\ Observe("timer", "void", <<>>)
    /\ UNCHANGED <<handlerVars, callbackVars, topicVars, nonVoiceVars>>

\* the detached thread wakes up and setState(Idle) reads _state (line 669)
TimerCheck ==
    /\ timers["sleep"] > 0
    /\ timers' = IF state # "Idle"
                 THEN [timers EXCEPT !["sleep"] = @ - 1, !["write"] = @ + 1]
                 ELSE [timers EXCEPT !["sleep"] = @ - 1]
    /\ Observe("timer", "void", <<>>)
    /\ UNCHANGED <<handlerVars, callbackVars, topicVars, nonVoiceVars>>

\* _state = state (line 676)
TimerWrite ==
    /\ timers["write"] > 0
    /\ state' = "Idle"
    /\ timers' = [timers EXCEPT !["write"] = @ - 1,
                     ![IF state # "Idle" THEN "propC" ELSE "propN"] = @ + 1]
    /\ Observe("timer", "void", <<>>)
    /\ UNCHANGED <<isRecordingProp, transcription, error, audioDevice,
                   lastAudioPath, files, now, callbackVars, topicVars, nonVoiceVars>>

\* _isRecording.setValue(state == Recording) (line 677)
TimerProp ==
    \E c \in {"C", "N"} :
        /\ timers["prop" \o c] > 0
        /\ isRecordingProp' = FALSE
        /\ timers' = [timers EXCEPT !["prop" \o c] = @ - 1,
                                    !["notify" \o c] = @ + 1]
        /\ Observe("timer", "void", <<>>)
        /\ UNCHANGED <<state, transcription, error, audioDevice,
                       lastAudioPath, files, now, callbackVars, topicVars, nonVoiceVars>>

\* the loop over the callbacks (lines 685-688); the step reports the value the
\* call stored if that changed the stored state
TimerNotify ==
    \E c \in {"C", "N"} :
        /\ timers["notify" \o c] > 0
        /\ timers' = [timers EXCEPT !["notify" \o c] = @ - 1]
        /\ LET h == InvokeCallbacks(H, AscendingSeq(DOMAIN stateChangeCallbacks))
           IN  /\ lastOp' = "timer"
               /\ ret' = "void"
               /\ trans' = IF c = "C" THEN <<"Idle">> ELSE <<>>
               /\ notes' = h.notes
               /\ sent' = h.sent
               /\ queued' = <<>>
               /\ spawned' = 0
               /\ closed' = 0
               /\ transcribed' = ""
               /\ lastGen' = NoGen
               /\ lastOut' = NoOut
               /\ lastMessage' = NoMessage
        /\ UNCHANGED <<handlerVars, callbackVars, topicVars, nonVoiceVars>>

\* VoiceCommandTopic::handleJson
HandleJson ==
    \E event \in TopicEvents :
        /\ topicAlive
        /\ CASE event = "start_subscription" ->
                  LET s == SetupStateChangeCallback(voiceHandler, callbackHandle,
                               stateChangeCallbacks, nextCallbackHandle)
                  IN  /\ s.next <= MaxHandles
                      /\ isSubscribed' = TRUE
                      /\ callbackHandle' = s.handle
                      /\ stateChangeCallbacks' = s.cbs
                      /\ nextCallbackHandle' = s.next
                      /\ Observe(event, "void", SendStateUpdate(voiceHandler, H))
                      /\ UNCHANGED <<isDone>>
             [] event = "stop_subscription" ->
                  /\ IF voiceHandler # "null" /\ callbackHandle # -1
                     THEN /\ stateChangeCallbacks' =
                                RemoveStateChangeCallback(stateChangeCallbacks,
                                                          callbackHandle)
                          /\ callbackHandle' = -1
                     ELSE UNCHANGED <<stateChangeCallbacks, callbackHandle>>
                  /\ isSubscribed' = FALSE
                  /\ isDone' = TRUE
                  /\ Observe(event, "void", <<>>)
                  /\ UNCHANGED <<nextCallbackHandle>>
             [] event = "refresh" ->
                  /\ Observe(event, "void", SendStateUpdate(voiceHandler, H))
                  /\ UNCHANGED <<callbackVars, isSubscribed, isDone, callbackHandle>>
             [] OTHER ->
                  /\ Observe(event, "void", <<>>)
                  /\ UNCHANGED <<callbackVars, isSubscribed, isDone, callbackHandle>>
        /\ UNCHANGED <<handlerVars, timers, topicAlive, voiceHandler, nonVoiceVars>>

\* VoiceCommandTopic::~VoiceCommandTopic
DestroyTopic ==
    /\ topicAlive
    /\ topicAlive' = FALSE
    /\ stateChangeCallbacks' =
          IF voiceHandler # "null" /\ callbackHandle # -1
          THEN RemoveStateChangeCallback(stateChangeCallbacks, callbackHandle)
          ELSE stateChangeCallbacks
    /\ Observe("~VoiceCommandTopic", "void", <<>>)
    /\ UNCHANGED <<handlerVars, timers, nextCallbackHandle, isSubscribed, isDone,
                   callbackHandle, voiceHandler, nonVoiceVars>>

\* ---------------------------------------------------------- scene initializer
\* SingleThreadedSceneInitializer::initializeNode: the node is initialized on
\* the calling thread and appended to the ready list
SingleInitializeNode(n) ==
    /\ nodeInitialized' = [nodeInitialized EXCEPT ![n] = TRUE]
    /\ initializedNodes' = Append(initializedNodes, n)
    /\ UNCHANGED <<initializingNodes, threadPool>>

\* MultiThreadedSceneInitializer::initializeNode: the node is registered as
\* initializing under the lock and its initialization is handed to the pool
MultiInitializeNode(n) ==
    /\ initializingNodes' = initializingNodes \cup {n}
    /\ threadPool' = Append(threadPool, n)
    /\ UNCHANGED <<nodeInitialized, initializedNodes>>

\* SceneInitializer::initializeNode, on a node not passed before
InitializeNode ==
    \E n \in Nodes \ submitted :
        /\ ~tornDown
        /\ submitted' = submitted \cup {n}
        /\ IF sceneKind = "single" THEN SingleInitializeNode(n)
           ELSE MultiInitializeNode(n)
        /\ UNCHANGED <<sceneKind, nThreads, workers, returned, taken, tornDown,
                       nonSceneVars>>

\* a worker of the pool takes the oldest task
WorkerStart(w) ==
    /\ ~tornDown
    /\ w <= nThreads
    /\ workers[w].pc = "idle"
    /\ threadPool # <<>>
    /\ workers' = [workers EXCEPT ![w] = [pc |-> "run", node |-> Head(threadPool)]]
    /\ threadPool' = Tail(threadPool)
    /\ UNCHANGED <<sceneKind, nThreads, initializedNodes, initializingNodes,
                   nodeInitialized, submitted, returned, taken, tornDown,
                   nonSceneVars>>

\* the task runs the node's initialization procedure
WorkerInitialize(w) ==
    /\ ~tornDown
    /\ workers[w].pc = "run"
    /\ nodeInitialized' = [nodeInitialized EXCEPT ![workers[w].node] = TRUE]
    /\ workers' = [workers EXCEPT ![w].pc = "done"]
    /\ UNCHANGED <<sceneKind, nThreads, initializedNodes, initializingNodes,
                   threadPool, submitted, returned, taken, tornDown, nonSceneVars>>

\* the task drops the node from the initializing set without appending it to
\* the ready list
WorkerCompleteDropsNode(w) ==
    /\ ~tornDown
    /\ workers[w].pc = "done"
    /\ initializingNodes' = initializingNodes \ {workers[w].node}
    /\ workers' = [workers EXCEPT ![w] = [pc |-> "idle", node |-> 0]]
    /\ UNCHANGED <<sceneKind, nThreads, threadPool, nodeInitialized, submitted,
                   returned, taken, tornDown, initializedNodes, nonSceneVars>>

\* the task appends the node to the ready list and leaves it registered as
\* initializing
WorkerCompleteKeepsInitializing(w) ==
    /\ ~tornDown
    /\ workers[w].pc = "done"
    /\ initializedNodes' = Append(initializedNodes, workers[w].node)
    /\ workers' = [workers EXCEPT ![w] = [pc |-> "idle", node |-> 0]]
    /\ UNCHANGED <<sceneKind, nThreads, threadPool, nodeInitialized, submitted,
                   returned, taken, tornDown, initializingNodes, nonSceneVars>>

\* on completion the task moves the node, under the lock, from the
\* initializing set into the ready list
WorkerComplete(w) ==
    /\ ~tornDown
    /\ workers[w].pc = "done"
    /\ initializingNodes' = initializingNodes \ {workers[w].node}
    /\ initializedNodes' = Append(initializedNodes, workers[w].node)
    /\ workers' = [workers EXCEPT ![w] = [pc |-> "idle", node |-> 0]]
    /\ UNCHANGED <<sceneKind, nThreads, threadPool, nodeInitialized, submitted,
                   returned, taken, tornDown, nonSceneVars>>

\* SceneInitializer::takeInitializedNodes: the ready list is swapped out
\* under the lock and returned
TakeInitializedNodes ==
    /\ ~tornDown
    /\ taken' = initializedNodes
    /\ initializedNodes' = <<>>
    /\ returned' = [n \in Nodes |->
                       returned[n] + Cardinality({i \in DOMAIN initializedNodes :
                                                    initializedNodes[i] = n})]
    /\ UNCHANGED <<sceneKind, nThreads, initializingNodes, threadPool, workers,
                   nodeInitialized, submitted, tornDown, nonSceneVars>>

\* isInitializing that reports the pool's queue only
IsInitializingQueueOnly ==
    /\ sceneKind = "multi"
    /\ threadPool # <<>>

\* SceneInitializer::isInitializing
IsInitializing ==
    /\ sceneKind = "multi"
    /\ \/ initializingNodes # {}
       \/ threadPool # <<>>
       \/ \E w \in Workers : workers[w].pc # "idle"

\* the initializer is destroyed
Teardown ==
    /\ ~tornDown
    /\ tornDown' = TRUE
    /\ UNCHANGED <<sceneKind, nThreads, initializedNodes, initializingNodes,
                   threadPool, workers, nodeInitialized, submitted, returned,
                   taken, nonSceneVars>>

\* ---------------------------------------------------------- path actions
\* Path::traversePath; the speed function integrated over dt by Simpson's
\* rule gives the displacement
TraversePath ==
    \E dt \in 0 .. 1, displacement \in -1 .. MaxDisplacement :
        /\ traversals < MaxTraversals
        /\ traversals' = traversals + 1
        /\ progressedTime' = progressedTime + dt
        /\ traveledDistance' = traveledDistance + displacement
        /\ UNCHANGED <<pathLength, startIdentifier, endIdentifier, nonPathVars>>

\* ---------------------------------------------------------- profile editor actions
\* the Duplicate button
DuplicateProfile ==
    /\ duplicates < MaxDuplicates
    /\ \E out \in DuplicateProfileOutcomes(profileEdit, profileFiles) :
          /\ profileEdit' = out.text
          /\ thrown' = out.thrown
    /\ duplicates' = duplicates + 1
    /\ profileOp' = "duplicateProfile"
    /\ profileInput' = "none"
    /\ signalled' = "none"
    /\ UNCHANGED <<profileFiles, builtInProfiles, saveSelected, dialogResult,
                   nonProfileVars>>

\* the Save button
DoApproved ==
    LET r == Approved(profileEdit, builtInProfiles, saveSelected, dialogResult)
    IN  /\ saveSelected' = r.saveSelected
        /\ dialogResult' = r.dialogResult
        /\ profileOp' = "approved"
        /\ thrown' = "none"
        /\ profileInput' = "none"
        /\ signalled' = "none"
        /\ UNCHANGED <<profileEdit, profileFiles, builtInProfiles, duplicates,
                       nonProfileVars>>

\* ProfileEdit::closeWithoutSaving
CloseWithoutSaving ==
    /\ saveSelected' = FALSE
    /\ dialogResult' = "rejected"
    /\ profileOp' = "closeWithoutSaving"
    /\ thrown' = "none"
    /\ profileInput' = "none"
    /\ signalled' = "none"
    /\ UNCHANGED <<profileEdit, profileFiles, builtInProfiles, duplicates,
                   nonProfileVars>>

\* a reject that closes the dialog as QDialog::reject does
RejectCloses ==
    /\ dialogResult' = "rejected"
    /\ signalled' = "none"
    /\ profileOp' = "reject"
    /\ profileInput' = "none"
    /\ thrown' = "none"
    /\ UNCHANGED <<profileEdit, profileFiles, builtInProfiles, saveSelected,
                   duplicates, nonProfileVars>>

\* ProfileEdit::reject: the signal raiseExitWindow is emitted, nothing else
Reject ==
    /\ signalled' = "raiseExitWindow"
    /\ profileOp' = "reject"
    /\ profileInput' = "none"
    /\ thrown' = "none"
    /\ UNCHANGED <<profileEdit, profileFiles, builtInProfiles, saveSelected,
                   dialogResult, duplicates, nonProfileVars>>

\* ProfileEdit::keyPressEvent: Enter and Return are dropped; every other key
\* goes to QDialog::keyPressEvent, which calls the virtual reject() for
\* Escape and ignores the rest
KeyPressEvent ==
    \E key \in Keys :
        /\ signalled' = IF key = "Escape" THEN "raiseExitWindow" ELSE "none"
        /\ profileOp' = "keyPressEvent"
        /\ profileInput' = key
        /\ thrown' = "none"
        /\ UNCHANGED <<profileEdit, profileFiles, builtInProfiles, saveSelected,
                       dialogResult, duplicates, nonProfileVars>>

\* the unsaved-changes prompt, answered with one of its buttons
DoPromptUserOfUnsavedChanges ==
    \E button \in Buttons :
        LET r == PromptUserOfUnsavedChanges(button, profileEdit, builtInProfiles,
                                            saveSelected, dialogResult)
        IN  /\ saveSelected' = r.saveSelected
            /\ dialogResult' = r.dialogResult
            /\ profileOp' = "promptUserOfUnsavedChanges"
            /\ profileInput' = button
            /\ signalled' = "none"
            /\ thrown' = "none"
            /\ UNCHANGED <<profileEdit, profileFiles, builtInProfiles, duplicates,
                           nonProfileVars>>

\* ---------------------------------------------------------- asset actions
\* the asset is activated
AssetInitialize ==
    /\ ~assetInitialized
    /\ layerGroups' = OnInitialize(layerGroups)
    /\ assetInitialized' = TRUE
    /\ assetOp' = "onInitialize"
    /\ UNCHANGED <<assetEnabled, nonAssetVars>>

\* the asset is deactivated
AssetDeinitialize ==
    /\ assetInitialized
    /\ layerGroups' = OnDeinitialize(layerGroups)
    /\ assetInitialized' = FALSE
    /\ assetOp' = "onDeinitialize"
    /\ UNCHANGED <<assetEnabled, nonAssetVars>>

\* another asset adds one of its layers to a group of a globe
AddOtherLayer ==
    \E g \in Globes, k \in LayerGroupIds, l \in OtherLayers :
        /\ layerGroups' = AddLayer(layerGroups, g, k, l)
        /\ layerGroups' # layerGroups
        /\ assetOp' = "addLayer"
        /\ UNCHANGED <<assetEnabled, assetInitialized, nonAssetVars>>

\* another asset removes one of its layers
DeleteOtherLayer ==
    \E g \in Globes, k \in LayerGroupIds, l \in OtherLayers :
        /\ layerGroups' = DeleteLayer(layerGroups, g, k, l)
        /\ layerGroups' # layerGroups
        /\ assetOp' = "deleteLayer"
        /\ UNCHANGED <<assetEnabled, assetInitialized, nonAssetVars>>

\* ---------------------------------------------------------- python ipc actions
\* PythonIPCHandler::connect up to the construction of the receive thread;
\* socketOk and connectOk are what socket() and connect() answer
Connect ==
    \E path \in SocketPaths, socketOk \in BOOLEAN, connectOk \in BOOLEAN :
        /\ ~terminated
        /\ ownerPc = "idle"
        /\ ipcCalls < MaxIpcCalls
        /\ ipcCalls' = ipcCalls + 1
        /\ ipcOp' = "connect"
        /\ IF IsConnected
           THEN \* already connected
                /\ socketOk /\ connectOk
                /\ ipcRet' = FALSE
                /\ UNCHANGED <<socketFd, socketPath, running, openFds, threadPc,
                               ownerPc>>
           ELSE /\ socketPath' = path
                /\ IF ~socketOk
                   THEN \* initializeSocket: socket() failed
                        /\ connectOk
                        /\ socketFd' = -1
                        /\ ipcRet' = FALSE
                        /\ UNCHANGED <<running, openFds, threadPc, ownerPc>>
                   ELSE /\ socketFd' = FreshFd
                        /\ openFds' = openFds \cup {FreshFd}
                        /\ IF ~connectOk
                           THEN \* initializeSocket: connect() failed
                                /\ ipcRet' = FALSE
                                /\ UNCHANGED <<running, threadPc, ownerPc>>
                           ELSE \* the thread starts; it is not yet in
                                \* _receiveThread
                                /\ running' = TRUE
                                /\ threadPc' = [threadPc EXCEPT ![NextThread] = "loop"]
                                /\ ownerPc' = "assign"
                                /\ UNCHANGED ipcRet
        /\ UNCHANGED <<receiveThread, terminated, nonIpcVars>>

\* the rest of connect: the new thread is move-assigned to _receiveThread,
\* which terminates the program if that holds a joinable thread
ConnectAssign ==
    /\ ~terminated
    /\ ownerPc = "assign"
    /\ IF receiveThread # 0
       THEN /\ terminated' = TRUE
            /\ UNCHANGED <<receiveThread, ownerPc, ipcRet>>
       ELSE /\ receiveThread' = Cardinality(Started)
            /\ ownerPc' = "idle"
            /\ ipcRet' = TRUE
            /\ UNCHANGED terminated
    /\ UNCHANGED <<socketFd, socketPath, running, openFds,
                   threadPc, ipcCalls, ipcOp, nonIpcVars>>

\* PythonIPCHandler::disconnect called by the owner, up to the join
Disconnect ==
    /\ ~terminated
    /\ ownerPc = "idle"
    /\ ipcCalls < MaxIpcCalls
    /\ ipcCalls' = ipcCalls + 1
    /\ ipcOp' = "disconnect"
    /\ IF ~IsConnected
       THEN UNCHANGED <<socketFd, running, openFds, ownerPc>>
       ELSE /\ running' = FALSE
            /\ IF receiveThread # 0
               THEN /\ ownerPc' = "join"
                    /\ UNCHANGED <<socketFd, openFds>>
               ELSE \* cleanupSocket
                    /\ socketFd' = -1
                    /\ openFds' = openFds \ {socketFd}
                    /\ UNCHANGED ownerPc
    /\ UNCHANGED <<socketPath, receiveThread, threadPc,
                   ipcRet, terminated, nonIpcVars>>

\* the join of disconnect returns once the thread has left receiveLoop; then
\* cleanupSocket
DisconnectJoin ==
    /\ ~terminated
    /\ ownerPc = "join"
    /\ threadPc[receiveThread] = "done"
    /\ receiveThread' = 0
    /\ socketFd' = -1
    /\ openFds' = openFds \ {socketFd}
    /\ ownerPc' = "idle"
    /\ UNCHANGED <<socketPath, running, threadPc, ipcCalls,
                   ipcOp, ipcRet, terminated, nonIpcVars>>

\* receiveLoop: the test of the while loop
ReceiveLoopTest(t) ==
    /\ ~terminated
    /\ threadPc[t] = "loop"
    /\ threadPc' = [threadPc EXCEPT ![t] = IF running THEN "recv" ELSE "done"]
    /\ UNCHANGED <<socketFd, socketPath, running, receiveThread,
                   openFds, ownerPc, ipcCalls, ipcOp, ipcRet,
                   terminated, nonIpcVars>>

\* receiveLoop: recv returns, with bytes or with a value <= 0; _messageCallback
\* is empty as no function has been registered
ReceiveLoopRecv(t) ==
    \E bytesReceived \in {0, 1} :
        /\ ~terminated
        /\ threadPc[t] = "recv"
        /\ socketFd \notin openFds => bytesReceived = 0
        /\ threadPc' = [threadPc EXCEPT ![t] =
                            IF bytesReceived > 0 THEN "loop"
                            ELSE IF running THEN "lost" ELSE "done"]
        /\ UNCHANGED <<socketFd, socketPath, running, receiveThread,
                       openFds, ownerPc, ipcCalls, ipcOp,
                       ipcRet, terminated, nonIpcVars>>

\* receiveLoop: handleError and disconnect on the receive thread. Joining
\* the thread itself throws std::system_error, which nothing catches
ReceiveLoopDisconnect(t) ==
    /\ ~terminated
    /\ threadPc[t] = "lost"
    /\ IF ~IsConnected
       THEN /\ threadPc' = [threadPc EXCEPT ![t] = "done"]
            /\ UNCHANGED <<socketFd, running, receiveThread, openFds, terminated>>
       ELSE /\ running' = FALSE
            /\ IF receiveThread = t
               THEN /\ terminated' = TRUE
                    /\ UNCHANGED <<socketFd, receiveThread, openFds, threadPc>>
               ELSE /\ receiveThread # 0 => threadPc[receiveThread] = "done"
                    /\ receiveThread' = 0
                    /\ socketFd' = -1
                    /\ openFds' = openFds \ {socketFd}
                    /\ threadPc' = [threadPc EXCEPT ![t] = "done"]
                    /\ UNCHANGED terminated
    /\ UNCHANGED <<socketPath, ownerPc, ipcCalls, ipcOp,
                   ipcRet, nonIpcVars>>

\* ---------------------------------------------------------- specifications
\* the handler under startRecording and stopRecording alone
RecNext ==
    \/ DoStartRecording
    \/ DoStopRecording

\* the handler with its callbacks, script generation and the timer threads
Next ==
    \/ DoStartRecording
    \/ DoStopRecording
    \/ DoConfirmTranscription
    \/ DoAddStateChangeCallback
    \/ DoRemoveStateChangeCallback
    \/ TimerCheck
    \/ TimerWrite
    \/ TimerProp
    \/ TimerNotify

\* the topic, with a handler whose state is moved by sendStatusUpdate
TopicInit ==
    HandlerInit /\ voiceHandler \in {"null", "handler"} /\ NonVoiceInit

TopicNext ==
    \/ HandleJson
    \/ DestroyTopic
    \/ DoSendStatusUpdate
    \/ DoAddStateChangeCallback

vars == <<voiceVars, sceneVars, pathVars, profileVars, assetVars, ipcVars>>

RecSpec == Init /\ [][RecNext]_vars
ProcSpec == ProcInit /\ [][DoProcessAudioData]_vars

\* the scene initializer of either variant with its callers and workers
SceneNext ==
    \/ InitializeNode
    \/ \E w \in Workers : WorkerStart(w)
    \/ \E w \in Workers : WorkerInitialize(w)
    \/ \E w \in Workers : WorkerComplete(w)
    \/ TakeInitializedNodes
    \/ Teardown

\* an initializer of either variant, just constructed
SceneSpecInit == NonSceneInit /\ SceneInit

SceneSpec == SceneSpecInit /\ [][SceneNext]_vars

\* the pool's workers are scheduled fairly and the caller takes the ready list
\* again and again
SceneFairness ==
    /\ \A w \in Workers : WF_vars(WorkerStart(w))
    /\ \A w \in Workers : WF_vars(WorkerInitialize(w))
    /\ \A w \in Workers : WF_vars(WorkerComplete(w))
    /\ WF_vars(TakeInitializedNodes)

SceneFairSpec == SceneSpec /\ SceneFairness

\* the profile editor and its buttons
ProfileNext == DuplicateProfile \/ DoApproved \/ CloseWithoutSaving
ProfileSpecInit == NonProfileInit /\ ProfileInit
ProfileSpec == ProfileSpecInit /\ [][ProfileNext]_vars

\* the profile editor's ways of closing: its buttons, keys and prompt
DialogNext ==
    \/ DoApproved
    \/ CloseWithoutSaving
    \/ Reject
    \/ KeyPressEvent
    \/ DoPromptUserOfUnsavedChanges

DialogSpec == ProfileSpecInit /\ [][DialogNext]_vars

\* the eclipse asset among the assets that add and remove layers
AssetNext ==
    AssetInitialize \/ AssetDeinitialize \/ AddOtherLayer \/ DeleteOtherLayer
AssetSpecInit == NonAssetInit /\ AssetInit
AssetSpec == AssetSpecInit /\ [][AssetNext]_vars

\* the owner of a PythonIPCHandler and its receive threads
ReceiveLoop ==
    \E t \in IpcThreads :
        ReceiveLoopTest(t) \/ ReceiveLoopRecv(t) \/ ReceiveLoopDisconnect(t)
IpcNext == Connect \/ ConnectAssign \/ Disconnect \/ DisconnectJoin \/ ReceiveLoop
IpcSpecInit == NonIpcInit /\ IpcInit
IpcSpec == IpcSpecInit /\ [][IpcNext]_vars

\* the owner and the receive threads are scheduled; when recv returns is up
\* to the peer
IpcFairness ==
    /\ WF_vars(ConnectAssign)
    /\ WF_vars(DisconnectJoin)
    /\ \A t \in IpcThreads :
          WF_vars(ReceiveLoopTest(t)) /\ WF_vars(ReceiveLoopDisconnect(t))
IpcFairSpec == IpcSpec /\ IpcFairness

\* a Path and the calls that advance it
PathSpecInit == NonPathInit /\ PathInit
PathSpec == PathSpecInit /\ [][TraversePath]_vars
Spec == Init /\ [][Next]_vars
TopicSpec == TopicInit /\ [][TopicNext]_vars

\* a detached thread that was started is scheduled until it has finished
TimerFairness ==
    /\ WF_vars(TimerCheck)
    /\ WF_vars(TimerWrite)
    /\ WF_vars(TimerProp)
    /\ WF_vars(TimerNotify)

\* the handler's recording, confirmation and timer threads, without callbacks
ScriptNext ==
    \/ DoStartRecording
    \/ DoStopRecording
    \/ DoConfirmTranscription
    \/ TimerCheck
    \/ TimerWrite
    \/ TimerProp
    \/ TimerNotify

ScriptSpec == Init /\ [][ScriptNext]_vars

\* the handler driven by the messages of the web GUI, with its timer threads
WebNext ==
    \/ DoHandleWebGuiMessage
    \/ TimerCheck
    \/ TimerWrite
    \/ TimerProp
    \/ TimerNotify

WebSpec == Init /\ [][WebNext]_vars

\* the handler with a client that starts and stops recordings and calls
\* sendStatusUpdate in between
StatusNext ==
    \/ DoStartRecording
    \/ DoStopRecording
    \/ DoSendStatusUpdate

StatusSpec == Init /\ [][StatusNext]_vars

\* the handler's callback map with its clients: the topic, which registers and
\* removes its callback, and others that add and remove theirs
HandleNext ==
    \/ DoAddStateChangeCallback
    \/ DoRemoveStateChangeCallback
    \/ HandleJson
    \/ DestroyTopic
    \/ DoStartRecording

HandleSpec == Init /\ [][HandleNext]_vars

\* the handler with a topic that subscribes and refreshes, and a script that
\* asks for the state
StateNext ==
    \/ DoStartRecording
    \/ DoStopRecording
    \/ DoConfirmTranscription
    \/ HandleJson
    \/ DoLuaState
StateSpec == Init /\ [][StateNext]_vars
FairScriptSpec == ScriptSpec /\ TimerFairness

\* the same with clients that register callbacks
CallbackNext == ScriptNext \/ DoAddStateChangeCallback
CallbackSpec == Init /\ [][CallbackNext]_vars

C2_Claim ==
    [][(state = "Recording" /\ lastOp' = "startRecording") =>
          (ret' = "false" /\ error' = "Already recording" /\ state' = "Recording")]_vars

\* C3: stopRecording called while the state is not Recording returns false,
\* sets the error "Not currently recording" and leaves the state unchanged.
C3_Claim ==
    [][(state # "Recording" /\ lastOp' = "stopRecording") =>
          (ret' = "false" /\ error' = "Not currently recording" /\ state' = state)]_vars

\* C4: confirmTranscription called while the state is not Idle, or while the
\* transcription is empty, returns false, starts no script generation and
\* leaves the state unchanged.
C4_Claim ==
    [][((state # "Idle" \/ transcription = "") /\ lastOp' = "confirmTranscription") =>
          (ret' = "false" /\ spawned' = 0 /\ queued' = <<>> /\ state' = state)]_vars

\* the script generation service answered with a script: the run succeeded,
\* its JSON says success and carries a non-empty script
GenSucceeded(gen) ==
    /\ gen.popen
    /\ gen.status = 0
    /\ gen.kind = "json"
    /\ gen.success = Bool("true")
    /\ gen.script.k = "str"
    /\ gen.script.v # ""

\* confirmTranscription has just run generateAndExecuteScript to its end
C5_Confirmed ==
    /\ lastOp = "confirmTranscription"
    /\ ret = "true"
    /\ GenSucceeded(lastGen)

\* C5: when confirmTranscription is accepted and the service returns a
\* non-empty script, that script is queued exactly once with synchronized=Yes
\* and sendToRemote=Yes, the error is cleared, the state goes through
\* GeneratingScript to Success, a timer is started, and the state later
\* becomes Idle.
C5_ConfirmSuccess ==
    /\ [](C5_Confirmed =>
            /\ queued = <<[code |-> lastGen.script.v, synchronized |-> "Yes",
                           sendToRemote |-> "Yes"]>>
            /\ error = ""
            /\ trans = <<"GeneratingScript", "Success">>
            /\ state = "Success"
            /\ timers["sleep"] >= 1)
    /\ (C5_Confirmed ~> state = "Idle")

\* the first recording was transcribed and confirmed, and its script queued
C5_Witness ==
    /\ C5_Confirmed
    /\ queued # <<>>
    /\ now = 1
    /\ audioDevice = "stopped"
    /\ state = "Success"

\* n copies of the sequence s, one after the other
RECURSIVE Repeat(_, _)
Repeat(s, n) == IF n = 0 THEN <<>> ELSE s \o Repeat(s, n - 1)

\* C8: the callbacks invoked by a step are, for each change of the stored
\* state the step made, every registered callback once in ascending handle
\* order, and nothing else: k changes of state give k notifications.
C8_Claim ==
    notes = Repeat(AscendingSeq(DOMAIN stateChangeCallbacks), Len(trans))

\* C10: after start_subscription on a topic whose handler is available the
\* topic is subscribed, exactly one snapshot has been sent, and the handler
\* holds exactly one callback of the topic, the one the topic's handle names.
C10_StartSubscription ==
    (lastOp = "start_subscription" /\ voiceHandler = "handler") =>
        /\ isSubscribed
        /\ Len(sent) = 1
        /\ {c \in DOMAIN stateChangeCallbacks : stateChangeCallbacks[c] = "topic"}
              = {callbackHandle}

\* a start_subscription on a topic that had subscribed before
C10_Witness ==
    /\ lastOp = "start_subscription"
    /\ voiceHandler = "handler"
    /\ callbackHandle >= 1
    /\ callbackHandle - 1 \notin DOMAIN stateChangeCallbacks

\* the lines of an output that begin with '{' once trimmed
BraceLines(lines) == SelectSeq(lines, LAMBDA l : l.kind \in {"json", "badjson"})

\* the line processAudioData parses: the last one that begins with '{'
Payload(out) == BraceLines(out.lines)[Len(BraceLines(out.lines))]

\* processAudioData has returned, having been given a path
C9_Called == lastOp = "processAudioData" /\ lastAudioPath # ""

\* processAudioData has returned, having been given no path
C9_NoPath ==
    (lastOp = "processAudioData" /\ lastAudioPath = "") =>
        /\ ret = ""
        /\ error = "No audio file available for processing"
        /\ spawned = 0

\* a JSON line was found, the exit status is 0, the error member is the empty
\* string and the text member a non-empty string
C9_Good(out) ==
    /\ BraceLines(out.lines) # <<>>
    /\ out.status = 0
    /\ Payload(out).error = Str("")
    /\ Payload(out).text.k = "str"
    /\ Payload(out).text.v # ""

C9_Outcome(p) ==
    IF p.error.k # "str" \/ (p.error.v = "" /\ p.text.k = "other")
    THEN ret = "" /\ error = "Failed to parse transcription result: type_error"
    ELSE IF p.error.v # "" THEN ret = "" /\ error = p.error.v
    ELSE IF p.text = Absent
    THEN ret = "" /\ error = "Invalid transcription response"
    ELSE IF p.text.v = "" THEN ret = "" /\ error = "No speech detected"
    ELSE ret = p.text.v /\ error = ""

C6_MultiThreadedSafety ==
    sceneKind = "multi" =>
        /\ \A n \in Nodes :
              returned[n] > 0 => n \in submitted /\ nodeInitialized[n]
        /\ \A n \in Range(taken) : n \in submitted /\ nodeInitialized[n]
        /\ \A n \in Nodes : returned[n] <= 1
        /\ initializingNodes \cap Range(initializedNodes) = {}

\* two workers: one node returned, one ready, one still initializing
C6_Witness ==
    /\ sceneKind = "multi"
    /\ nThreads = 2
    /\ taken # <<>>
    /\ initializedNodes # <<>>
    /\ initializingNodes # {}

\* C7: in both variants, with fair workers and takeInitializedNodes called
\* again and again, every node passed to initializeNode is eventually
\* returned by takeInitializedNodes, unless the initializer is torn down.
C7_EventuallyReturned ==
    \A n \in Nodes : (n \in submitted) ~> (returned[n] > 0 \/ tornDown)

\* every node went through the pool and was returned, without a teardown
C7_Witness ==
    /\ sceneKind = "multi"
    /\ ~tornDown
    /\ submitted = Nodes
    /\ \A n \in Nodes : returned[n] = 1

\* the callbacks the handler holds for the topic
TopicCallbacks ==
    {c \in DOMAIN stateChangeCallbacks : stateChangeCallbacks[c] = "topic"}

\* C11: after stop_subscription the topic is unsubscribed, its done flag is
\* set and the handler holds no callback of the topic; after the destructor
\* the handler holds none either; and as long as it holds none, a handler
\* operation sends no snapshot whatever state changes it makes.
C11_Deregistered ==
    /\ lastOp = "stop_subscription" =>
          ~isSubscribed /\ isDone /\ callbackHandle = -1 /\ TopicCallbacks = {}
    /\ ~topicAlive => TopicCallbacks = {}
    /\ (TopicCallbacks = {} /\ lastOp = "sendStatusUpdate") => sent = <<>>

\* the handler changes state after a stop_subscription, another client's
\* callback is invoked and no snapshot is sent
C11_Witness ==
    /\ lastOp = "sendStatusUpdate"
    /\ isDone
    /\ ~isSubscribed
    /\ trans # <<>>
    /\ notes # <<>>
    /\ sent = <<>>

\* a message without an "event" member sends nothing and changes nothing
C12_NoEvent ==
    lastOp' = "noevent" =>
        /\ sent' = <<>>
        /\ UNCHANGED <<handlerVars, callbackVars, timers, topicVars>>

\* C12 as stated: a refresh sends exactly one snapshot of the handler's
\* current state and leaves the subscribed flag, the done flag and the
\* callback handle unchanged; a message without "event" sends nothing and
\* changes nothing.
C12_Claim ==
    [][/\ lastOp' = "refresh" =>
             /\ sent' = <<Snapshot(H)>>
             /\ UNCHANGED <<isSubscribed, isDone, callbackHandle>>
       /\ C12_NoEvent]_vars

\* C12 amended: a refresh sends one snapshot of the handler's current state
\* when the topic has a handler and nothing when it has none; in both cases
\* the subscribed flag, the done flag and the callback handle, and the
\* handler, are unchanged; a message without "event" sends nothing and
\* changes nothing.
C12_Refresh ==
    [][/\ lastOp' = "refresh" =>
             /\ sent' = IF voiceHandler = "handler"
                        THEN <<[type |-> "voice_status",
                                status |-> StatusKeyword(state),
                                transcription |-> transcription,
                                error |-> error]>>
                        ELSE <<>>
             /\ UNCHANGED <<handlerVars, callbackVars, topicVars>>
       /\ C12_NoEvent]_vars

\* a refresh handled by a topic that has unsubscribed sends the error state
C12_Witness ==
    /\ lastOp = "refresh"
    /\ voiceHandler = "handler"
    /\ isDone
    /\ ~isSubscribed
    /\ Len(sent) = 1
    /\ sent[1].status = "error"

\* C13: isDone() is true exactly when the subscribed flag is false; after a
\* start_subscription it is false, also when the done flag is set.
C13_IsDone ==
    /\ IsDone <=> ~isSubscribed
    /\ lastOp = "start_subscription" => ~IsDone

\* a start_subscription handled after a stop_subscription
C13_Witness ==
    /\ lastOp = "start_subscription"
    /\ isDone
    /\ ~IsDone

\* the handler's fields as an operation leaves them
Fields(h) ==
    <<h.state, h.isRecordingProp, h.transcription, h.error, h.audioDevice,
      h.lastAudioPath, h.files, h.now>>

\* handleWebGuiMessage has set the error "Invalid message format" and the
\* state Error and has done nothing else
C14_Invalid ==
    /\ error' = "Invalid message format"
    /\ state' = "Error"
    /\ isRecordingProp' = FALSE
    /\ UNCHANGED <<transcription, audioDevice, lastAudioPath, files, now, timers>>
    /\ queued' = <<>>
    /\ spawned' = 0

\* toggle_recording does what stopRecording does when the state is Recording
\* and what startRecording does otherwise
C14_Toggle ==
    (lastOp' = "handleWebGuiMessage" /\ lastMessage'.message = "toggle_recording") =>
        handlerVars' =
            IF state = "Recording"
            THEN Fields(StopRecording(H, lastMessage'.env.save,
                                      lastMessage'.env.out).h)
            ELSE Fields(StartRecording(H, lastMessage'.env.initOk,
                                       lastMessage'.env.startOk).h)

\* C14 as stated: a message that is not a valid JSON object sets the error
\* "Invalid message format" and the state Error and does nothing else;
\* toggle_recording goes to stopRecording in Recording and to startRecording
\* otherwise.
C14_Claim ==
    [][/\ (/\ lastOp' = "handleWebGuiMessage"
           /\ lastMessage'.message \in {"malformed", "nonobject"}) => C14_Invalid
       /\ C14_Toggle]_vars

\* C14 amended: text that is not valid JSON, or a JSON object whose "action"
\* is not a string, sets the error and the state Error and does nothing
\* else; valid JSON that is not an object, or has no "action" member, or
\* names an unknown action, changes nothing; toggle_recording goes to
\* stopRecording in Recording and to startRecording otherwise.
C14_HandleWebGuiMessage ==
    [][/\ (/\ lastOp' = "handleWebGuiMessage"
           /\ lastMessage'.message \in {"malformed", "badaction"}) => C14_Invalid
       /\ (/\ lastOp' = "handleWebGuiMessage"
           /\ lastMessage'.message \in {"nonobject", "noaction", "unknown_action"})
             => UNCHANGED <<handlerVars, timers>> /\ trans' = <<>>
       /\ C14_Toggle]_vars

\* a malformed message arrives while recording: the state is Error and the
\* device still captures
C14_Witness ==
    /\ lastOp = "handleWebGuiMessage"
    /\ lastMessage.message = "malformed"
    /\ audioDevice = "started"
    /\ state = "Error"

\* C15: for a Path of positive length, hasReachedEnd() is false when the
\* Path is constructed, and after any traversePath calls it is true exactly
\* when the traveled distance is at least the curve's length.
C15_HasReachedEnd ==
    pathLength > 0 =>
        /\ traversals = 0 => ~HasReachedEnd
        /\ HasReachedEnd <=> traveledDistance >= pathLength

\* three traversals have brought the traveled distance to exactly the length
C15_Witness ==
    /\ traversals = 3
    /\ pathLength = 4
    /\ traveledDistance = pathLength
    /\ HasReachedEnd

\* C16: for a Path of positive length, currentAnchor() is the start node's
\* identifier while twice the traveled distance is at most the length, and
\* the end node's identifier once it is more.
C16_CurrentAnchor ==
    pathLength > 0 =>
        /\ 2 * traveledDistance <= pathLength => CurrentAnchor = startIdentifier
        /\ 2 * traveledDistance > pathLength => CurrentAnchor = endIdentifier

\* exactly halfway between two different nodes: the anchor is still the start
C16_Witness ==
    /\ traversals > 0
    /\ pathLength > 0
    /\ 2 * traveledDistance = pathLength
    /\ startIdentifier # endIdentifier
    /\ CurrentAnchor = startIdentifier

\* the text after the last '_' of a name
C17_Suffix(text) == SubSeq(text, RFind(text, Separator) + 1, Len(text))

\* what C17 takes for numeric, read generously: digits and nothing else,
\* after white space and a sign if there are any
Numeric(str) ==
    LET unspaced == SkipSpace(str)
        signed == unspaced # <<>> /\ Head(unspaced) \in {"+", "-"}
        body == IF signed THEN Tail(unspaced) ELSE unspaced
    IN  body # <<>> /\ \A i \in 1 .. Len(body) : IsDigit(body[i])

\* the name has a version: a numeric suffix after a '_'
C17_Versioned(text) == RFind(text, Separator) # 0 /\ Numeric(C17_Suffix(text))

\* the start version of the name is an int below the largest
C17_Small(text) ==
    C17_Versioned(text) =>
        /\ Stoi(C17_Suffix(text)).thrown = "none"
        /\ Stoi(C17_Suffix(text)).value # IntMax

\* the name C17 describes: base_v for the first v after the start version
\* that is not on disk
C17_Expected(text, onDisk) ==
    LET versioned == C17_Versioned(text)
        base == IF versioned THEN SubSeq(text, 1, RFind(text, Separator) - 1)
                ELSE text
        start == IF versioned THEN Stoi(C17_Suffix(text)).value ELSE 0
        Name(v) == base \o <<Separator>> \o Format(v)
        v == CHOOSE n \in start + 1 .. start + Cardinality(onDisk) + 1 :
                /\ Name(n) \notin onDisk
                /\ \A m \in start + 1 .. n - 1 : Name(m) \in onDisk
    IN  Name(v)

\* C17: duplicateProfile leaves an empty name field alone and otherwise sets
\* it to base_v, where a numeric suffix after the last '_' is the start
\* version and is stripped, any other name is the base with start version 0,
\* and v is the smallest integer above the start version that is not on disk.
C17_Claim ==
    [][profileOp' = "duplicateProfile" /\ duplicates' = duplicates + 1 =>
          /\ thrown' = "none"
          /\ profileEdit = <<>> => profileEdit' = <<>>
          /\ (profileEdit # <<>> /\ C17_Small(profileEdit))
                => profileEdit' = C17_Expected(profileEdit, profileFiles)]_vars

\* C18: approved with an empty name, or with the name of a built-in profile,
\* leaves the dialog and wasSaved() as they are; with any other name it sets
\* wasSaved() and accepts the dialog.
C18_Approved ==
    [][profileOp' = "approved" =>
          IF profileEdit = <<>> \/ profileEdit \in builtInProfiles
          THEN dialogResult' = dialogResult /\ saveSelected' = saveSelected
          ELSE saveSelected' /\ dialogResult' = "accepted"]_vars

\* Save was refused for a built-in name while the dialog was open
C18_Witness ==
    /\ profileOp = "approved"
    /\ profileEdit \in builtInProfiles
    /\ dialogResult = "open"
    /\ ~saveSelected

\* C19: activating the eclipse asset adds one layer, of identifier
\* 5000_Years_Eclipses and ZIndex 100, to the ColorLayers of Earth and changes
\* no other layer; deactivating it removes that layer and no other.
C19_Layer ==
    [][/\ (~assetInitialized /\ assetInitialized') =>
            /\ Layer.Identifier = "5000_Years_Eclipses"
            /\ Layer.ZIndex = 100
            /\ Layer \notin layerGroups["Earth"]["ColorLayers"]
            /\ layerGroups' =
                  [layerGroups EXCEPT !["Earth"]["ColorLayers"] = @ \cup {Layer}]
       /\ (assetInitialized /\ ~assetInitialized') =>
            /\ Layer \in layerGroups["Earth"]["ColorLayers"]
            /\ layerGroups' =
                  [layerGroups EXCEPT !["Earth"]["ColorLayers"] = @ \ {Layer}]]_vars

\* the asset was deactivated while Earth had other color layers: they remain
C19_Witness ==
    /\ assetOp = "onDeinitialize"
    /\ layerGroups["Earth"]["ColorLayers"] = OtherLayers

\* C20: connect on a connected handler returns false and leaves the socket,
\* the path and the threads alone; connect on a handler that is not connected,
\* with socket() and connect() succeeding, starts one receive thread and
\* returns true, and isConnected() is true when it has returned.
C20_Claim ==
    [][/\ (ipcOp' = "connect" /\ ipcCalls' # ipcCalls /\ IsConnected) =>
            /\ ipcRet' = FALSE
            /\ UNCHANGED <<socketFd, socketPath, openFds, threadPc, receiveThread>>
       /\ (ownerPc = "idle" /\ ownerPc' = "assign") =>
            Cardinality(Started') = Cardinality(Started) + 1
       /\ (ownerPc = "assign" /\ ownerPc' = "idle") =>
            /\ Started' = Started
            /\ ipcRet' = TRUE
            /\ IsConnected']_vars

\* the step in which receive thread t, having read nothing from a running
\* handler, runs the teardown
C21_Teardown(t) ==
    /\ threadPc[t] = "lost"
    /\ running /\ ~running'
    /\ ipcCalls' = ipcCalls
    /\ receiveThread \in {0, t}
    /\ \A u \in IpcThreads \ {t} : threadPc'[u] = threadPc[u]

\* C21: when recv returns zero or less in a running handler, the teardown on
\* the receive thread completes: the thread leaves its loop, nothing fails,
\* the socket is closed and isConnected() is false.
C21_Claim ==
    [][\A t \in IpcThreads :
          C21_Teardown(t) =>
              /\ threadPc'[t] = "done"
              /\ ~terminated'
              /\ ~IsConnected'
              /\ openFds' = openFds \ {socketFd}]_vars

\* C22: a disconnect of the owner that has to join the receive thread
\* returns, whatever the peer does, unless the program has been terminated.
C22_Claim == (ownerPc = "join") ~> (ownerPc = "idle" \/ terminated)

\* the keyword C23 gives for each state of the handler
C23_Keyword(s) ==
    CASE s = "Idle" -> "idle"
      [] s = "Recording" -> "recording"
      [] s = "Processing" -> "processing"
      [] s = "Error" -> "error"
      [] s = "GeneratingScript" -> "unknown"
      [] s = "Success" -> "unknown"

\* C23: state() and the topic's snapshot give the same keyword for every
\* state, with "unknown" for GeneratingScript and Success, and every snapshot
\* has the transcription and the error of the handler, empty or not.
C23_StateKeyword ==
    /\ \A s \in VoiceStates :
          LuaState(s) = C23_Keyword(s) /\ StatusKeyword(s) = C23_Keyword(s)
    /\ lastOp = "state" => ret = C23_Keyword(state)
    /\ \A i \in DOMAIN sent : {"transcription", "error"} \subseteq DOMAIN sent[i]
    /\ (lastOp \in {"refresh", "start_subscription"} /\ sent # <<>>) =>
          sent = <<[type |-> "voice_status", status |-> C23_Keyword(state),
                    transcription |-> transcription, error |-> error]>>
    /\ (lastOp = "confirmTranscription" /\ Len(sent) = Len(trans)) =>
          \A i \in DOMAIN sent : sent[i].status = C23_Keyword(trans[i])

\* the subscribed topic was sent "unknown" with an empty error while the
\* script was generated
C23_Witness ==
    /\ lastOp = "confirmTranscription"
    /\ Len(sent) = Len(trans)
    /\ \E i \in DOMAIN sent :
          /\ trans[i] = "GeneratingScript"
          /\ sent[i].status = "unknown"
          /\ sent[i].error = ""

C25_Fired(pc) == timers'[pc] < timers[pc]

\* C25: a timer that fires in any state other than Idle, Recording and a
\* later Success included, stores Idle, clears the recording property and
\* invokes every registered callback.
C25_TimerSetsIdle ==
    [][/\ (C25_Fired("sleep") /\ state # "Idle") =>
            timers'["write"] = timers["write"] + 1
       /\ C25_Fired("write") => state' = "Idle"
       /\ (C25_Fired("propC") \/ C25_Fired("propN")) => ~isRecordingProp'
       /\ (C25_Fired("notifyC") \/ C25_Fired("notifyN")) =>
            /\ notes' = AscendingSeq(DOMAIN stateChangeCallbacks)
            /\ state' = state]_vars

\* a timer has ended a recording: the state is Idle and the callbacks were
\* notified while the capture device is still started
C25_Witness ==
    /\ lastOp = "timer"
    /\ trans = <<"Idle">>
    /\ notes # <<>>
    /\ state = "Idle"
    /\ ~isRecordingProp
    /\ audioDevice = "started"

\* C26: while the topic is subscribed, every change of the handler's error
\* to a new non-empty text is followed by a snapshot of status "error" that
\* carries the text.
C26_Claim ==
    [][(/\ error' # error
        /\ error' # ""
        /\ isSubscribed
        /\ callbackHandle \in DOMAIN stateChangeCallbacks) =>
            \E i \in DOMAIN sent' :
                sent'[i].status = "error" /\ sent'[i].error = error']_vars

\* C27: a startRecording that cannot initialize the capture device on first
\* use (the call that leaves the error "Failed to initialize audio capture")
\* returns false, keeps no device object and leaves the state unchanged.
C27_Claim ==
    [][(/\ lastOp' = "startRecording"
        /\ state # "Recording"
        /\ audioDevice = "null"
        /\ error' = "Failed to initialize audio capture") =>
            /\ ret' = "false"
            /\ audioDevice' = "null"
            /\ state' = state]_vars

\* C28: a stopRecording called in Recording whose save fails (no subprocess
\* is run) or whose transcription step fails (the subprocess yields no text)
\* returns false with the state Error and a non-empty error, the callbacks
\* having observed Processing and then Error; when the transcription step is
\* the one that failed, the file saved by the call is still on disk and its
\* path is still the handler's last audio path.
C28_StopFails ==
    [][(/\ lastOp' = "stopRecording"
        /\ state = "Recording"
        /\ (spawned' = 0 \/ transcribed' = "")) =>
            /\ ret' = "false"
            /\ state' = "Error"
            /\ error' # ""
            /\ trans' = <<"Processing", "Error">>
            /\ Len(notes') = 2 * Cardinality(DOMAIN stateChangeCallbacks)
            /\ spawned' = 1 =>
                   /\ now' = now + 1
                   /\ AudioPath(now') \in files'
                   /\ lastAudioPath' = AudioPath(now')]_vars

\* a stopRecording has failed in its transcription step with a callback
\* registered: the saved file is on disk
C28_Witness ==
    /\ lastOp = "stopRecording"
    /\ ret = "false"
    /\ state = "Error"
    /\ error # ""
    /\ spawned = 1
    /\ transcribed = ""
    /\ trans = <<"Processing", "Error">>
    /\ notes # <<>>
    /\ lastAudioPath = AudioPath(now)
    /\ lastAudioPath \in files

\* C29: whatever public operations came before, sendStatusUpdate calls with
\* a transcription made while recording included, a stopRecording that
\* returns true leaves the state Idle with the file it saved deleted and no
\* audio path retained, also when the text it got is the transcription
\* already stored.
C29_Claim ==
    [][(lastOp' = "stopRecording" /\ ret' = "true") =>
            /\ state' = "Idle"
            /\ AudioPath(now') \notin files'
            /\ lastAudioPath' = ""]_vars

\* C30: handleWebGuiMessage given the action confirm_transcription while the
\* state is not Idle or the transcription is empty starts no script
\* generation, sets the error "No transcription available or not in idle
\* state" and does not change the state.
C30_Claim ==
    [][(/\ lastOp' = "handleWebGuiMessage"
        /\ lastMessage'.message = "confirm_transcription"
        /\ (state # "Idle" \/ transcription = "")) =>
            /\ spawned' = 0
            /\ queued' = <<>>
            /\ error' = "No transcription available or not in idle state"
            /\ state' = state]_vars

\* C31: an operation that sets the handler's error to a non-empty message (a
\* stopRecording rejected outside Recording, a startRecording rejected in
\* Recording) leaves the state Error, from every state and also when the
\* message is the error text already stored; setting the error to empty does
\* not change the state.
C31_Claim ==
    [][/\ (lastOp' = "stopRecording" /\ state # "Recording") => state' = "Error"
       /\ (lastOp' = "startRecording" /\ state = "Recording") => state' = "Error"
       /\ SetError(H, "").state = state]_vars

\* the first of the lines that begins with '{' once trimmed
RECURSIVE C32_FirstBrace(_)
C32_FirstBrace(lines) ==
    IF BeginsWithBrace(Trim(Head(lines))) THEN Head(lines)
    ELSE C32_FirstBrace(Tail(lines))

\* C32: when the output of the transcription subprocess has lines beginning
\* with '{', processAudioData ends as it does on an output whose only line is
\* the first of them: same return value, same error.
C32_Claim ==
    [][(/\ lastOp' = "processAudioData"
        /\ lastOut'.popen
        /\ \E i \in DOMAIN lastOut'.lines : BeginsWithBrace(Trim(lastOut'.lines[i]))) =>
            LET first == C32_FirstBrace(lastOut'.lines)
                r == ProcessAudioData(H, [lastOut' EXCEPT !.lines = <<first>>])
            IN  /\ ret' = r.ret
                /\ error' = r.h.error]_vars

\* C33: the handle counter starts at 0 and never decreases; a registration
\* returns the counter's value (0 for the first, one more than the previous
\* registration's for each later one, whatever was removed in between) and
\* adds exactly that handle to the map, so every handle in the map is below
\* the counter and none is returned twice; removing a handle that is not in
\* the map changes nothing.
C33_Handles ==
    [][/\ nextCallbackHandle' >= nextCallbackHandle
       /\ nextCallbackHandle' # nextCallbackHandle =>
             /\ nextCallbackHandle' = nextCallbackHandle + 1
             /\ nextCallbackHandle \in DOMAIN stateChangeCallbacks'
             /\ nextCallbackHandle \notin DOMAIN stateChangeCallbacks
             /\ lastOp' = "addStateChangeCallback" =>
                    ret' = ToString(nextCallbackHandle)
             /\ lastOp' = "start_subscription" =>
                    callbackHandle' = nextCallbackHandle
       /\ lastOp' = "addStateChangeCallback" =>
             nextCallbackHandle' = nextCallbackHandle + 1
       /\ \A c \in DOMAIN stateChangeCallbacks' : c < nextCallbackHandle'
       /\ \A handle \in 0 .. MaxHandles + 1 :
             handle \notin DOMAIN stateChangeCallbacks =>
                 RemoveStateChangeCallback(stateChangeCallbacks, handle)
                     = stateChangeCallbacks]_vars

\* a registration made after the first handle was removed has returned 1
C33_Witness ==
    /\ lastOp = "addStateChangeCallback"
    /\ ret = "1"
    /\ nextCallbackHandle = 2
    /\ DOMAIN stateChangeCallbacks = {1}

\* C34: when isInitializing() is false, every node passed to initializeNode
\* so far is in the ready list or was returned already; for the
\* single-threaded variant it is false in every state the caller sees; a
\* takeInitializedNodes returns the whole ready list and leaves it empty in
\* one step, so a call that finds the list empty, no completion having come
\* since the call before, returns nothing.
C34_IsInitializing ==
    [][/\ ~IsInitializing =>
             \A n \in submitted : n \in Range(initializedNodes) \/ returned[n] > 0
       /\ sceneKind = "single" => ~IsInitializing
       /\ (taken' # taken \/ returned' # returned) =>
             /\ taken' = initializedNodes
             /\ initializedNodes' = <<>>
             /\ \A n \in Nodes :
                   returned'[n] = returned[n] + (IF n \in Range(taken') THEN 1 ELSE 0)
       /\ (initializedNodes = <<>> /\ returned' # returned) => taken' = <<>>]_vars

\* the multi-threaded initializer has nothing outstanding: one part of the
\* nodes was returned, the rest is ready
C34_Witness ==
    /\ sceneKind = "multi"
    /\ ~IsInitializing
    /\ submitted = Nodes
    /\ taken # <<>>
    /\ initializedNodes # <<>>
    /\ \A n \in Nodes : n \in Range(initializedNodes) \/ returned[n] = 1

\* C35: reject() emits the exit-requested signal and changes neither the
\* dialog's result nor wasSaved(); closeWithoutSaving() leaves wasSaved()
\* false and the dialog rejected; the unsaved-changes prompt does what
\* approved() does on Save, what closeWithoutSaving() does on Discard and
\* nothing on Cancel; a press of Enter or Return changes nothing, so it never
\* accepts the dialog.
C35_Closing ==
    [][/\ profileOp' = "reject" =>
             /\ signalled' = "raiseExitWindow"
             /\ dialogResult' = dialogResult
             /\ saveSelected' = saveSelected
       /\ profileOp' = "closeWithoutSaving" =>
             /\ ~saveSelected'
             /\ dialogResult' = "rejected"
       /\ (profileOp' = "promptUserOfUnsavedChanges" /\ profileInput' = "Save") =>
             LET r == Approved(profileEdit, builtInProfiles, saveSelected, dialogResult)
             IN  saveSelected' = r.saveSelected /\ dialogResult' = r.dialogResult
       /\ (profileOp' = "promptUserOfUnsavedChanges" /\ profileInput' = "Discard") =>
             /\ ~saveSelected'
             /\ dialogResult' = "rejected"
       /\ (profileOp' = "promptUserOfUnsavedChanges" /\ profileInput' = "Cancel") =>
             /\ saveSelected' = saveSelected
             /\ dialogResult' = dialogResult
       /\ (profileOp' = "keyPressEvent" /\ profileInput' \in {"Enter", "Return"}) =>
             /\ saveSelected' = saveSelected
             /\ dialogResult' = dialogResult
             /\ signalled' = "none"]_vars

\* reject() was called on a dialog that an earlier Save had accepted: the
\* signal is out, the dialog still counts as saved
C35_Witness ==
    /\ profileOp = "reject"
    /\ signalled = "raiseExitWindow"
    /\ dialogResult = "accepted"
    /\ saveSelected

\* C36: whenever no setState call is in progress (every timer thread is
\* asleep or has finished), the read-only isRecording property equals
\* (state = Recording), the value of the isRecording() accessor.
C36_Claim ==
    (\A pc \in TimerPcs \ {"sleep"} : timers[pc] = 0) =>
        (isRecordingProp <=> (state = "Recording"))

\* C37: the capture device is started exactly when the state is Recording:
\* the state is never Recording with the device stopped or absent, and never
\* another state with the device capturing.
C37_Claim == (state = "Recording") <=> (audioDevice = "started")

\* C38: a connect on a handler that is not connected which returns false
\* (socket() or connect() failed) leaves isConnected() false and starts no
\* receive thread, so that the next connect is not rejected as already
\* connected.
C38_Claim ==
    [][(/\ ipcOp' = "connect"
        /\ ipcCalls' # ipcCalls
        /\ ~IsConnected
        /\ ownerPc' = "idle") =>
            /\ ipcRet' = FALSE
            /\ ~IsConnected'
            /\ Started' = Started]_vars

\* C39: neither a confirmTranscription, whether its script generation
\* succeeds or fails, nor a step of a timer thread changes the stored
\* transcription, so a confirmTranscription made in Idle with a transcription
\* stored is accepted again after an earlier success, and the script the
\* service returns is queued again; a successful startRecording clears the
\* transcription.
C39_TranscriptionKept ==
    [][/\ lastOp' \in {"confirmTranscription", "timer"} =>
             transcription' = transcription
       /\ (/\ lastOp' = "confirmTranscription"
           /\ state = "Idle"
           /\ transcription # ""
           /\ GenSucceeded(lastGen')) =>
                /\ ret' = "true"
                /\ queued' = <<[code |-> lastGen'.script.v, synchronized |-> "Yes",
                                sendToRemote |-> "Yes"]>>
       /\ (lastOp' = "startRecording" /\ ret' = "true") => transcription' = ""]_vars

\* the one transcription made so far was confirmed, the timer of that success
\* has stored Idle, and the same transcription was confirmed again with a
\* script queued and a second timer asleep
C39_Witness ==
    /\ lastOp = "confirmTranscription"
    /\ ret = "true"
    /\ state = "Success"
    /\ queued # <<>>
    /\ transcription # ""
    /\ now = 1
    /\ timers["propC"] = 1
    /\ timers["sleep"] = 1

\* C40: every pipe a processAudioData or a confirmTranscription has opened
\* was closed with pclose when the call returns, on the paths that succeed
\* and on the paths that fail.
C40_Claim ==
    [][/\ (lastOp' = "processAudioData" /\ lastOut'.popen) => closed' = 1
       /\ (lastOp' = "confirmTranscription" /\ lastGen'.popen) => closed' = 1]_vars

====
